---- MODULE Spec2Model ----
(***************************************************************************)
(* Conversation Intelligence Layer of the emotional-support chat agent:    *)
(* the session state (EnhancedConversationState), the phase engine, and    *)
(* the two cooldown stores (the per-user store of cooldown_manager.py and  *)
(* the cooldown map held in the session state).                            *)
(*                                                                         *)
(* Texts are TLA+ strings; phrase detection is the substring test of the   *)
(* source, computed character by character on the lower-cased text.        *)
(* Timestamps (started_at, last_activity) are not modelled: no decision    *)
(* of the layer reads them.                                                *)
(***************************************************************************)
EXTENDS Integers, Sequences, FiniteSets, TLC

VARIABLES
    state,              \* the EnhancedConversationState object operated on
    _phase_engine,      \* the PhaseEngine singleton: [enabled |-> BOOLEAN]
    _cooldowns,         \* cooldown_manager._cooldowns: anon_id -> (category -> turns)
    ENABLE_COOLDOWNS,   \* cooldown_manager.ENABLE_COOLDOWNS (module global, read at every call)
    call,               \* the last operation performed (with its arguments and result
                        \* where a property needs them)
    supplied,           \* history variable: every emotion passed to update_emotion, in order
    cm_armed,           \* history variable: per user and category of the cooldown manager,
                        \* the turns of the last set_cooldown call (n) and the number of
                        \* decrement_cooldowns calls made since (k, counted up to n)
    st_armed,           \* the same for the cooldown map of the session state
    _enhanced_states,   \* enhanced_conversation_state._enhanced_states: anon_id -> state
    MEMORY,             \* memory_manager.MEMORY: anon_id -> the last 5 remembered messages
    _intelligence_layer,\* the ConversationIntelligenceLayer singleton: [enabled |-> BOOLEAN]
    _memory_controller, \* the MemoryRecallController singleton: [enabled |-> BOOLEAN]
    ENABLE_ADVICE_DETECTION, \* the flag of conversation_intelligence_config
    processed,          \* history variable: per user, the number of process calls since the
                        \* session was created or last reset (calls) and the number of them
                        \* that returned should_ask_advice_preference (asked)
    threads             \* the messages being handled: per handler thread, its position in
                        \* the handler and its local variables

vars == <<state, _phase_engine, _cooldowns, ENABLE_COOLDOWNS, call, supplied, cm_armed, st_armed,
          _enhanced_states, MEMORY, _intelligence_layer, _memory_controller,
          ENABLE_ADVICE_DETECTION, processed, threads>>

\* the variables of the orchestration layer
layer_vars == <<_enhanced_states, MEMORY, _intelligence_layer, _memory_controller,
                ENABLE_ADVICE_DETECTION, processed, threads>>

\* Python's None
None == "<None>"

\* an Optional[int] argument, as a set: {} when it is omitted (None), {n} for
\* the integer n
NoTurns == {}

\* the integer of a supplied Optional[int] argument
TurnsValue(turns) == CHOOSE n \in turns : TRUE

-----------------------------------------------------------------------------
(* Bounds of the model *)

\* number of messages already handled by a session handed to determine_phase
MaxTurn == 3
\* largest distress_count / positive_count supplied by the classifier
MaxDistressSignals == 1
MaxPositiveSignals == 3
\* number of update_emotion calls made with an unrestricted emotion label;
\* later calls of a long run use the labels of LongRunEmotions only
FreeUpdates == 3
\* number of update_emotion calls in a run (more than MAX_EMOTION_HISTORY)
MaxUpdates == 12
\* largest caller-supplied turns value of a set_cooldown call
MaxTurnsArg == 1
\* number of increment_turn calls in a run of the cooldown stores
MaxCooldownTurns == 4

-----------------------------------------------------------------------------
(* conversation_intelligence_config.py *)

VENTING_MIN_LENGTH == 100
VENTING_MIN_WORDS == 20
VENTING_SIGNAL_THRESHOLD == 2
REFLECT_MIN_TURNS == 2
CELEBRATING_STREAK_THRESHOLD == 2
CALMING_STREAK_THRESHOLD == 2
VENT_SCORE_THRESHOLD == 3
VENT_SCORE_MAX == 10
DEFAULT_COOLDOWN == 3

\* COOLDOWN_CONFIG.get(category, DEFAULT_COOLDOWN)
COOLDOWN_CONFIG(category) ==
    CASE category = "what_happened_question" -> 3
      [] category = "celebration_hype"       -> 2
      [] category = "memory_callback"        -> 4
      [] category = "grounding_message"      -> 3
      [] category = "advice_prompt"          -> 4
      [] category = "breathe_tip"            -> 3
      [] category = "validation_heavy"       -> 2
      [] OTHER                               -> DEFAULT_COOLDOWN

-----------------------------------------------------------------------------
(* enhanced_conversation_state.py: constants *)

Phase_OPENING == "opening"
Phase_SHARING == "sharing"
Phase_VENTING == "venting"
Phase_REFLECTING == "reflecting"
Phase_CALMING == "calming"
Phase_CELEBRATING == "celebrating"
Phase_CLOSING == "closing"

Phases == {Phase_OPENING, Phase_SHARING, Phase_VENTING, Phase_REFLECTING,
           Phase_CALMING, Phase_CELEBRATING, Phase_CLOSING}

EmotionTrend_IMPROVING == "improving"
EmotionTrend_STABLE == "stable"
EmotionTrend_WORSENING == "worsening"
EmotionTrend_UNKNOWN == "unknown"

EmotionTrends == {EmotionTrend_IMPROVING, EmotionTrend_STABLE,
                  EmotionTrend_WORSENING, EmotionTrend_UNKNOWN}

AdviceMode_VENT_ONLY == "vent_only"
AdviceMode_ADVICE_OK == "advice_ok"
AdviceMode_UNKNOWN == "unknown"

MAX_EMOTION_HISTORY == 10
MAX_RECENT_MESSAGES == 5

\* the labels of the upstream classifier, and "mixed", a label outside the
\* four categories that the valence table of _update_trend also knows
Emotions == {"neutral", "positive", "distress", "strong_distress", "mixed"}

\* the labels used after the first FreeUpdates calls of a long run
LongRunEmotions == {"positive", "distress"}

-----------------------------------------------------------------------------
(* Python str operations *)

UpperCase == "ABCDEFGHIJKLMNOPQRSTUVWXYZ"
LowerCase == "abcdefghijklmnopqrstuvwxyz"

\* the i-th character of s, as a string of length 1
CharAt(s, i) == SubSeq(s, i, i)

\* str.lower() on one character
lower_char(c) ==
    IF \E i \in 1..Len(UpperCase) : CharAt(UpperCase, i) = c
    THEN CharAt(LowerCase, CHOOSE i \in 1..Len(UpperCase) : CharAt(UpperCase, i) = c)
    ELSE c

\* str.lower()
RECURSIVE str_lower(_)
str_lower(s) ==
    IF Len(s) = 0 THEN s
    ELSE IF Len(s) = 1 THEN lower_char(s)
    ELSE str_lower(SubSeq(s, 1, Len(s) \div 2)) \o str_lower(SubSeq(s, Len(s) \div 2 + 1, Len(s)))

\* `p in t` for strings: p occurs in t as a contiguous run of characters
str_contains(t, p) ==
    \E i \in 1..(Len(t) - Len(p) + 1) : SubSeq(t, i, i + Len(p) - 1) = p

\* len(s.split()): the number of maximal runs of non-blank characters
split_len(s) ==
    Cardinality({i \in 1..Len(s) :
        /\ CharAt(s, i) # " "
        /\ (i = 1 \/ CharAt(s, i - 1) = " ")})

-----------------------------------------------------------------------------
(* phase_engine.py: phrase sets *)

CLOSING_PHRASES == {
    "bye", "goodbye", "see you", "see ya", "later", "gotta go", "gtg",
    "im going", "im leaving", "im out", "peace", "ttyl", "talk later",
    "thats all", "thats it", "im done", "nothing more"}

RANT_STARTERS == {
    "i just", "i cant", "i can't", "i hate", "i need to vent",
    "omg", "ugh", "bruh", "dude", "like seriously",
    "you wont believe", "you won't believe", "guess what"}

CELEBRATION_TRIGGERS == {
    "yay", "omg yes", "i did it", "finally", "lets go", "let's go",
    "woooo", "yasss", "amazing news", "good news", "great news"}

CALMING_TRIGGERS == {
    "i cant breathe", "i can't breathe", "panicking", "panic attack",
    "having a breakdown", "breaking down", "losing it", "cant cope",
    "can't cope", "overwhelmed", "drowning", "suffocating"}

PhraseSets == {CLOSING_PHRASES, RANT_STARTERS, CELEBRATION_TRIGGERS, CALMING_TRIGGERS}

-----------------------------------------------------------------------------
(* The messages of the model *)

\* 100 characters, 20 words
TextMedium ==
    "we went to the old market and carried home warm bread and rested beside the river banks for one hour"
\* 101 characters, 20 words
TextLongChars ==
    "we went to the old market and carried home warm bread and rested beside the river banks for two hours"
\* 83 characters, 21 words
TextLongWords ==
    "we went to the park and then had lunch with my mom and dad near a big old oak by it"

Texts == {
    "ok",                           \* short, no phrase
    "bye",                          \* closing phrase
    "Goodbye, I am PANICKING",      \* closing phrase and crisis phrase, mixed case
    "i cant breathe",               \* crisis phrase (and the rant starter "i cant")
    "yay",                          \* celebration phrase
    "yay ugh",                      \* celebration phrase and rant starter
    "ugh",                          \* rant starter
    TextMedium, TextLongChars, TextLongWords}

\* 166 characters, 37 words, no phrase of any set
TextRant ==
    "we went to the old market and carried home warm bread and rested beside the river banks for one hour and later we sat on the low wall and ate it all up as the sun set"

\* the messages handed to the advice detector
AdviceTexts == {
    "ok",
    "i just need to vent",                      \* vent-only phrase
    "I JUST NEED TO VENT, what should i do?",   \* vent-only and advice-request phrase, a question
    "what should i do",                         \* advice-request phrase
    "Any Advice??",                             \* advice-request phrase, mixed case
    "is it normal?",                            \* question pattern and short question
    "do you think so",                          \* one question pattern, no question mark
    "omg!! WHY ME",                             \* rant starter, exclamations, upper-case words
    "honestly!!",                               \* rant starter and exclamations
    "how can we fix it?",                       \* question pattern and short question
    TextRant,                                   \* long
    TextRant \o " ugh"}                         \* long, with a rant starter

\* the messages remembered by the model
MemoryTexts == {"ok", "my boss is mad", "salary day", "big exam soon"}

\* every message of the model
AllTexts == Texts \cup AdviceTexts \cup MemoryTexts

\* the phrase test and the word count of every message, tabulated once
has_phrase_table ==
    [text \in AllTexts, phrases \in PhraseSets |->
        \E phrase \in phrases : str_contains(str_lower(text), phrase)]

word_count_table == [text \in AllTexts |-> split_len(text)]

\* phase_engine._has_phrase
_has_phrase(text, phrases) == has_phrase_table[text, phrases]

\* _get_text_length_category without the medium category
_get_text_length_category_no_medium(text) ==
    LET char_count == Len(text)
        word_count == word_count_table[text]
    IN  IF char_count > VENTING_MIN_LENGTH \/ word_count > VENTING_MIN_WORDS
        THEN "long"
        ELSE "short"

\* phase_engine._get_text_length_category
_get_text_length_category(text) ==
    LET char_count == Len(text)
        word_count == word_count_table[text]
    IN  IF char_count > VENTING_MIN_LENGTH \/ word_count > VENTING_MIN_WORDS
        THEN "long"
        ELSE IF char_count > 50 \/ word_count > 10
        THEN "medium"
        ELSE "short"

-----------------------------------------------------------------------------
(* enhanced_conversation_state.py: the session state *)

\* EnhancedConversationState(anon_id=anon_id): the dataclass defaults
EnhancedConversationState(anon_id) ==
    [anon_id |-> anon_id,
     current_emotion |-> "neutral",
     initial_emotion |-> None,
     emotion_history |-> <<>>,
     emotion_trend |-> EmotionTrend_UNKNOWN,
     turn_count |-> 0,
     venting_score |-> 0,
     phase |-> Phase_OPENING,
     previous_phase |-> None,
     advice_mode |-> AdviceMode_UNKNOWN,
     advice_asked |-> FALSE,
     last_reply_type |-> None,
     last_reply_category |-> None,
     cooldowns |-> <<>>,
     positive_streak |-> 0,
     neutral_streak |-> 0,
     distress_streak |-> 0,
     strong_distress_streak |-> 0,
     memory_topics_seen |-> {},
     memory_recall_used_this_turn |-> FALSE,
     recent_messages |-> <<>>]

-----------------------------------------------------------------------------
(* phase_engine.py: PhaseEngine *)

\* _detect_venting with the signal spike tested against the threshold itself
\* (without the + 1)
_detect_venting_spike_at_threshold(text, text_length, emotion, signals, st) ==
    IF text_length = "long" THEN TRUE
    ELSE IF _has_phrase(text, RANT_STARTERS) THEN TRUE
    ELSE IF signals.distress_count + signals.positive_count >= VENTING_SIGNAL_THRESHOLD THEN TRUE
    ELSE IF st.venting_score >= VENT_SCORE_THRESHOLD THEN TRUE
    ELSE FALSE

\* _detect_venting that also takes every distress message for venting
_detect_venting_on_distress(text, text_length, emotion, signals, st) ==
    IF text_length = "long" THEN TRUE
    ELSE IF _has_phrase(text, RANT_STARTERS) THEN TRUE
    ELSE IF signals.distress_count + signals.positive_count >= VENTING_SIGNAL_THRESHOLD + 1 THEN TRUE
    ELSE IF st.venting_score >= VENT_SCORE_THRESHOLD THEN TRUE
    ELSE emotion \in {"distress", "strong_distress"}

\* PhaseEngine._detect_venting
_detect_venting(text, text_length, emotion, signals, st) ==
    IF text_length = "long" THEN TRUE
    ELSE IF _has_phrase(text, RANT_STARTERS) THEN TRUE
    ELSE IF signals.distress_count + signals.positive_count >= VENTING_SIGNAL_THRESHOLD + 1 THEN TRUE
    ELSE IF st.venting_score >= VENT_SCORE_THRESHOLD THEN TRUE
    ELSE FALSE

\* _transition_from_current whose pause rule of the Venting phase asks for
\* turn >= 4
_transition_from_current_late_pause(current, st, text, text_length, emotion, signals) ==
    LET turn == st.turn_count
    IN  CASE current = Phase_OPENING ->
                IF emotion = "positive" THEN <<Phase_SHARING, "opening_to_sharing_positive">>
                ELSE IF emotion = "neutral" THEN <<Phase_SHARING, "opening_to_sharing_neutral">>
                ELSE IF emotion \in {"distress", "strong_distress"}
                     THEN <<Phase_VENTING, "opening_to_venting_distress">>
                ELSE <<Phase_SHARING, "opening_to_sharing_default">>
          [] current = Phase_SHARING ->
                IF turn >= REFLECT_MIN_TURNS /\ text_length = "short"
                THEN <<Phase_REFLECTING, "sharing_to_reflecting_pause">>
                ELSE IF emotion \in {"distress", "strong_distress"}
                     THEN <<Phase_VENTING, "sharing_to_venting_distress">>
                ELSE <<Phase_SHARING, "stay_sharing">>
          [] current = Phase_VENTING ->
                IF text_length = "short" /\ turn >= 4
                THEN <<Phase_REFLECTING, "venting_to_reflecting_pause">>
                ELSE <<Phase_VENTING, "stay_venting">>
          [] current = Phase_REFLECTING ->
                IF text_length = "long" THEN <<Phase_VENTING, "reflecting_to_venting_resume">>
                ELSE IF st.emotion_trend = EmotionTrend_IMPROVING /\ emotion = "positive"
                     THEN <<Phase_CELEBRATING, "reflecting_to_celebrating_improved">>
                ELSE IF st.emotion_trend = EmotionTrend_WORSENING
                     THEN <<Phase_CALMING, "reflecting_to_calming_worsening">>
                ELSE <<Phase_REFLECTING, "stay_reflecting">>
          [] current = Phase_CALMING ->
                IF emotion \in {"positive", "neutral"} /\ st.emotion_trend # EmotionTrend_WORSENING
                THEN <<Phase_REFLECTING, "calming_to_reflecting_stabilized">>
                ELSE <<Phase_CALMING, "stay_calming">>
          [] current = Phase_CELEBRATING ->
                IF emotion = "neutral" THEN <<Phase_SHARING, "celebrating_to_sharing_neutral">>
                ELSE IF emotion \in {"distress", "strong_distress"}
                     THEN <<Phase_REFLECTING, "celebrating_to_reflecting_shift">>
                ELSE <<Phase_CELEBRATING, "stay_celebrating">>
          [] current = Phase_CLOSING ->
                IF text_length \in {"medium", "long"}
                THEN <<Phase_SHARING, "closing_to_sharing_continued">>
                ELSE <<Phase_CLOSING, "stay_closing">>
          [] OTHER -> <<current, "no_transition">>

\* _transition_from_current keeping Opening for a neutral message
_transition_from_current_stays_opening(current, st, text, text_length, emotion, signals) ==
    LET turn == st.turn_count
    IN  CASE current = Phase_OPENING ->
                IF emotion = "positive" THEN <<Phase_SHARING, "opening_to_sharing_positive">>
                ELSE IF emotion = "neutral" THEN <<Phase_OPENING, "opening_to_sharing_neutral">>
                ELSE IF emotion \in {"distress", "strong_distress"}
                     THEN <<Phase_VENTING, "opening_to_venting_distress">>
                ELSE <<Phase_SHARING, "opening_to_sharing_default">>
          [] current = Phase_SHARING ->
                IF turn >= REFLECT_MIN_TURNS /\ text_length = "short"
                THEN <<Phase_REFLECTING, "sharing_to_reflecting_pause">>
                ELSE IF emotion \in {"distress", "strong_distress"}
                     THEN <<Phase_VENTING, "sharing_to_venting_distress">>
                ELSE <<Phase_SHARING, "stay_sharing">>
          [] current = Phase_VENTING ->
                IF text_length = "short" /\ turn >= 3
                THEN <<Phase_REFLECTING, "venting_to_reflecting_pause">>
                ELSE <<Phase_VENTING, "stay_venting">>
          [] current = Phase_REFLECTING ->
                IF text_length = "long" THEN <<Phase_VENTING, "reflecting_to_venting_resume">>
                ELSE IF st.emotion_trend = EmotionTrend_IMPROVING /\ emotion = "positive"
                     THEN <<Phase_CELEBRATING, "reflecting_to_celebrating_improved">>
                ELSE IF st.emotion_trend = EmotionTrend_WORSENING
                     THEN <<Phase_CALMING, "reflecting_to_calming_worsening">>
                ELSE <<Phase_REFLECTING, "stay_reflecting">>
          [] current = Phase_CALMING ->
                IF emotion \in {"positive", "neutral"} /\ st.emotion_trend # EmotionTrend_WORSENING
                THEN <<Phase_REFLECTING, "calming_to_reflecting_stabilized">>
                ELSE <<Phase_CALMING, "stay_calming">>
          [] current = Phase_CELEBRATING ->
                IF emotion = "neutral" THEN <<Phase_SHARING, "celebrating_to_sharing_neutral">>
                ELSE IF emotion \in {"distress", "strong_distress"}
                     THEN <<Phase_REFLECTING, "celebrating_to_reflecting_shift">>
                ELSE <<Phase_CELEBRATING, "stay_celebrating">>
          [] current = Phase_CLOSING ->
                IF text_length \in {"medium", "long"}
                THEN <<Phase_SHARING, "closing_to_sharing_continued">>
                ELSE <<Phase_CLOSING, "stay_closing">>
          [] OTHER -> <<current, "no_transition">>

\* _transition_from_current without the way out of Celebrating on distress
_transition_from_current_keeps_celebrating(current, st, text, text_length, emotion, signals) ==
    LET turn == st.turn_count
    IN  CASE current = Phase_OPENING ->
                IF emotion = "positive" THEN <<Phase_SHARING, "opening_to_sharing_positive">>
                ELSE IF emotion = "neutral" THEN <<Phase_SHARING, "opening_to_sharing_neutral">>
                ELSE IF emotion \in {"distress", "strong_distress"}
                     THEN <<Phase_VENTING, "opening_to_venting_distress">>
                ELSE <<Phase_SHARING, "opening_to_sharing_default">>
          [] current = Phase_SHARING ->
                IF turn >= REFLECT_MIN_TURNS /\ text_length = "short"
                THEN <<Phase_REFLECTING, "sharing_to_reflecting_pause">>
                ELSE IF emotion \in {"distress", "strong_distress"}
                     THEN <<Phase_VENTING, "sharing_to_venting_distress">>
                ELSE <<Phase_SHARING, "stay_sharing">>
          [] current = Phase_VENTING ->
                IF text_length = "short" /\ turn >= 3
                THEN <<Phase_REFLECTING, "venting_to_reflecting_pause">>
                ELSE <<Phase_VENTING, "stay_venting">>
          [] current = Phase_REFLECTING ->
                IF text_length = "long" THEN <<Phase_VENTING, "reflecting_to_venting_resume">>
                ELSE IF st.emotion_trend = EmotionTrend_IMPROVING /\ emotion = "positive"
                     THEN <<Phase_CELEBRATING, "reflecting_to_celebrating_improved">>
                ELSE IF st.emotion_trend = EmotionTrend_WORSENING
                     THEN <<Phase_CALMING, "reflecting_to_calming_worsening">>
                ELSE <<Phase_REFLECTING, "stay_reflecting">>
          [] current = Phase_CALMING ->
                IF emotion \in {"positive", "neutral"} /\ st.emotion_trend # EmotionTrend_WORSENING
                THEN <<Phase_REFLECTING, "calming_to_reflecting_stabilized">>
                ELSE <<Phase_CALMING, "stay_calming">>
          [] current = Phase_CELEBRATING ->
                IF emotion = "neutral" THEN <<Phase_SHARING, "celebrating_to_sharing_neutral">>
                ELSE IF emotion \in {"distress", "strong_distress"}
                     THEN <<Phase_CELEBRATING, "stay_celebrating">>
                ELSE <<Phase_CELEBRATING, "stay_celebrating">>
          [] current = Phase_CLOSING ->
                IF text_length \in {"medium", "long"}
                THEN <<Phase_SHARING, "closing_to_sharing_continued">>
                ELSE <<Phase_CLOSING, "stay_closing">>
          [] OTHER -> <<current, "no_transition">>

\* PhaseEngine._transition_from_current
_transition_from_current(current, st, text, text_length, emotion, signals) ==
    LET turn == st.turn_count
    IN  CASE current = Phase_OPENING ->
                IF emotion = "positive" THEN <<Phase_SHARING, "opening_to_sharing_positive">>
                ELSE IF emotion = "neutral" THEN <<Phase_SHARING, "opening_to_sharing_neutral">>
                ELSE IF emotion \in {"distress", "strong_distress"}
                     THEN <<Phase_VENTING, "opening_to_venting_distress">>
                ELSE <<Phase_SHARING, "opening_to_sharing_default">>
          [] current = Phase_SHARING ->
                IF turn >= REFLECT_MIN_TURNS /\ text_length = "short"
                THEN <<Phase_REFLECTING, "sharing_to_reflecting_pause">>
                ELSE IF emotion \in {"distress", "strong_distress"}
                     THEN <<Phase_VENTING, "sharing_to_venting_distress">>
                ELSE <<Phase_SHARING, "stay_sharing">>
          [] current = Phase_VENTING ->
                IF text_length = "short" /\ turn >= 3
                THEN <<Phase_REFLECTING, "venting_to_reflecting_pause">>
                ELSE <<Phase_VENTING, "stay_venting">>
          [] current = Phase_REFLECTING ->
                IF text_length = "long" THEN <<Phase_VENTING, "reflecting_to_venting_resume">>
                ELSE IF st.emotion_trend = EmotionTrend_IMPROVING /\ emotion = "positive"
                     THEN <<Phase_CELEBRATING, "reflecting_to_celebrating_improved">>
                ELSE IF st.emotion_trend = EmotionTrend_WORSENING
                     THEN <<Phase_CALMING, "reflecting_to_calming_worsening">>
                ELSE <<Phase_REFLECTING, "stay_reflecting">>
          [] current = Phase_CALMING ->
                IF emotion \in {"positive", "neutral"} /\ st.emotion_trend # EmotionTrend_WORSENING
                THEN <<Phase_REFLECTING, "calming_to_reflecting_stabilized">>
                ELSE <<Phase_CALMING, "stay_calming">>
          [] current = Phase_CELEBRATING ->
                IF emotion = "neutral" THEN <<Phase_SHARING, "celebrating_to_sharing_neutral">>
                ELSE IF emotion \in {"distress", "strong_distress"}
                     THEN <<Phase_REFLECTING, "celebrating_to_reflecting_shift">>
                ELSE <<Phase_CELEBRATING, "stay_celebrating">>
          [] current = Phase_CLOSING ->
                IF text_length \in {"medium", "long"}
                THEN <<Phase_SHARING, "closing_to_sharing_continued">>
                ELSE <<Phase_CLOSING, "stay_closing">>
          [] OTHER -> <<current, "no_transition">>

\* determine_phase with the first-message test written `turn < 1`
determine_phase_first_turn_off_by_one(self, st, text, emotion, signals) ==
    IF ~self.enabled THEN <<st.phase, "phase_engine_disabled">>
    ELSE
    LET text_length == _get_text_length_category(text)
    IN  IF st.turn_count < 1 THEN <<Phase_OPENING, "first_message">>
        ELSE IF _has_phrase(text, CLOSING_PHRASES)
             THEN <<Phase_CLOSING, "exit_phrase_detected">>
        ELSE IF emotion = "strong_distress" \/ _has_phrase(text, CALMING_TRIGGERS)
             THEN <<Phase_CALMING, "strong_distress_or_crisis">>
        ELSE IF st.distress_streak >= CALMING_STREAK_THRESHOLD
             THEN <<Phase_CALMING, "distress_streak_threshold">>
        ELSE IF emotion = "positive"
                /\ (\/ signals.positive_count >= 3
                    \/ _has_phrase(text, CELEBRATION_TRIGGERS)
                    \/ st.positive_streak >= CELEBRATING_STREAK_THRESHOLD)
             THEN <<Phase_CELEBRATING, "positive_celebration_trigger">>
        ELSE IF _detect_venting(text, text_length, emotion, signals, st)
             THEN <<Phase_VENTING, "venting_detected">>
        ELSE _transition_from_current(st.phase, st, text, text_length, emotion, signals)

\* determine_phase with the calming override tested before the closing phrases
determine_phase_calming_before_closing(self, st, text, emotion, signals) ==
    IF ~self.enabled THEN <<st.phase, "phase_engine_disabled">>
    ELSE
    LET text_length == _get_text_length_category(text)
    IN  IF st.turn_count <= 1 THEN <<Phase_OPENING, "first_message">>
        ELSE IF emotion = "strong_distress" \/ _has_phrase(text, CALMING_TRIGGERS)
             THEN <<Phase_CALMING, "strong_distress_or_crisis">>
        ELSE IF _has_phrase(text, CLOSING_PHRASES)
             THEN <<Phase_CLOSING, "exit_phrase_detected">>
        ELSE IF st.distress_streak >= CALMING_STREAK_THRESHOLD
             THEN <<Phase_CALMING, "distress_streak_threshold">>
        ELSE IF emotion = "positive"
                /\ (\/ signals.positive_count >= 3
                    \/ _has_phrase(text, CELEBRATION_TRIGGERS)
                    \/ st.positive_streak >= CELEBRATING_STREAK_THRESHOLD)
             THEN <<Phase_CELEBRATING, "positive_celebration_trigger">>
        ELSE IF _detect_venting(text, text_length, emotion, signals, st)
             THEN <<Phase_VENTING, "venting_detected">>
        ELSE _transition_from_current(st.phase, st, text, text_length, emotion, signals)

\* determine_phase with the streak test written `distress_streak > threshold`
determine_phase_streak_strictly_above(self, st, text, emotion, signals) ==
    IF ~self.enabled THEN <<st.phase, "phase_engine_disabled">>
    ELSE
    LET text_length == _get_text_length_category(text)
    IN  IF st.turn_count <= 1 THEN <<Phase_OPENING, "first_message">>
        ELSE IF _has_phrase(text, CLOSING_PHRASES)
             THEN <<Phase_CLOSING, "exit_phrase_detected">>
        ELSE IF emotion = "strong_distress" \/ _has_phrase(text, CALMING_TRIGGERS)
             THEN <<Phase_CALMING, "strong_distress_or_crisis">>
        ELSE IF st.distress_streak > CALMING_STREAK_THRESHOLD
             THEN <<Phase_CALMING, "distress_streak_threshold">>
        ELSE IF emotion = "positive"
                /\ (\/ signals.positive_count >= 3
                    \/ _has_phrase(text, CELEBRATION_TRIGGERS)
                    \/ st.positive_streak >= CELEBRATING_STREAK_THRESHOLD)
             THEN <<Phase_CELEBRATING, "positive_celebration_trigger">>
        ELSE IF _detect_venting(text, text_length, emotion, signals, st)
             THEN <<Phase_VENTING, "venting_detected">>
        ELSE _transition_from_current(st.phase, st, text, text_length, emotion, signals)

\* determine_phase with venting detection tested before the celebration override
determine_phase_venting_before_celebration(self, st, text, emotion, signals) ==
    IF ~self.enabled THEN <<st.phase, "phase_engine_disabled">>
    ELSE
    LET text_length == _get_text_length_category(text)
    IN  IF st.turn_count <= 1 THEN <<Phase_OPENING, "first_message">>
        ELSE IF _has_phrase(text, CLOSING_PHRASES)
             THEN <<Phase_CLOSING, "exit_phrase_detected">>
        ELSE IF emotion = "strong_distress" \/ _has_phrase(text, CALMING_TRIGGERS)
             THEN <<Phase_CALMING, "strong_distress_or_crisis">>
        ELSE IF st.distress_streak >= CALMING_STREAK_THRESHOLD
             THEN <<Phase_CALMING, "distress_streak_threshold">>
        ELSE IF _detect_venting(text, text_length, emotion, signals, st)
             THEN <<Phase_VENTING, "venting_detected">>
        ELSE IF emotion = "positive"
                /\ (\/ signals.positive_count >= 3
                    \/ _has_phrase(text, CELEBRATION_TRIGGERS)
                    \/ st.positive_streak >= CELEBRATING_STREAK_THRESHOLD)
             THEN <<Phase_CELEBRATING, "positive_celebration_trigger">>
        ELSE _transition_from_current(st.phase, st, text, text_length, emotion, signals)

\* PhaseEngine.determine_phase, of the engine `self`
PhaseEngine_determine_phase(self, st, text, emotion, signals) ==
    IF ~self.enabled THEN <<st.phase, "phase_engine_disabled">>
    ELSE
    LET current_phase == st.phase
        turn == st.turn_count
        text_length == _get_text_length_category(text)
        positive_signals == signals.positive_count
    IN  IF turn <= 1 THEN <<Phase_OPENING, "first_message">>
        ELSE IF _has_phrase(text, CLOSING_PHRASES)
             THEN <<Phase_CLOSING, "exit_phrase_detected">>
        ELSE IF emotion = "strong_distress" \/ _has_phrase(text, CALMING_TRIGGERS)
             THEN <<Phase_CALMING, "strong_distress_or_crisis">>
        ELSE IF st.distress_streak >= CALMING_STREAK_THRESHOLD
             THEN <<Phase_CALMING, "distress_streak_threshold">>
        ELSE IF emotion = "positive"
                /\ (\/ positive_signals >= 3
                    \/ _has_phrase(text, CELEBRATION_TRIGGERS)
                    \/ st.positive_streak >= CELEBRATING_STREAK_THRESHOLD)
             THEN <<Phase_CELEBRATING, "positive_celebration_trigger">>
        ELSE IF _detect_venting(text, text_length, emotion, signals, st)
             THEN <<Phase_VENTING, "venting_detected">>
        ELSE _transition_from_current(current_phase, st, text, text_length, emotion, signals)

\* the module-level determine_phase: the singleton engine's method
determine_phase(st, text, emotion, signals) ==
    PhaseEngine_determine_phase(_phase_engine, st, text, emotion, signals)

-----------------------------------------------------------------------------
(* Python dict operations; a dict is a function on its key set *)

EmptyDict == [k \in {} |-> 0]

\* d[k] = v
dict_set(d, k, v) == [x \in DOMAIN d \cup {k} |-> IF x = k THEN v ELSE d[x]]

\* del d[k] for every k of ks
dict_del(d, ks) == [x \in DOMAIN d \ ks |-> d[x]]

\* d.get(k, default)
dict_get(d, k, default) == IF k \in DOMAIN d THEN d[k] ELSE default

\* s[-n:] for a list s and n > 0
last_n(s, n) == IF Len(s) <= n THEN s ELSE SubSeq(s, Len(s) - n + 1, Len(s))

-----------------------------------------------------------------------------
(* enhanced_conversation_state.py: the methods of EnhancedConversationState *)

\* _update_streaks without the reset of the neutral streak
_update_streaks_neutral_not_reset(st, emotion) ==
    LET positive_0 == IF emotion # "positive" THEN 0 ELSE st.positive_streak
        neutral_0 == st.neutral_streak
        distress_0 == IF emotion \notin {"distress", "strong_distress"} THEN 0 ELSE st.distress_streak
        strong_0 == IF emotion # "strong_distress" THEN 0 ELSE st.strong_distress_streak
    IN  [st EXCEPT
            !.positive_streak = IF emotion = "positive" THEN positive_0 + 1 ELSE positive_0,
            !.neutral_streak = IF emotion = "neutral" THEN neutral_0 + 1 ELSE neutral_0,
            !.distress_streak = IF emotion \in {"distress", "strong_distress"}
                                THEN distress_0 + 1 ELSE distress_0,
            !.strong_distress_streak = IF emotion = "strong_distress"
                                       THEN strong_0 + 1 ELSE strong_0]

\* EnhancedConversationState._update_streaks: the resets, then the increment
_update_streaks(st, emotion) ==
    LET positive_0 == IF emotion # "positive" THEN 0 ELSE st.positive_streak
        neutral_0 == IF emotion # "neutral" THEN 0 ELSE st.neutral_streak
        distress_0 == IF emotion \notin {"distress", "strong_distress"} THEN 0 ELSE st.distress_streak
        strong_0 == IF emotion # "strong_distress" THEN 0 ELSE st.strong_distress_streak
    IN  [st EXCEPT
            !.positive_streak = IF emotion = "positive" THEN positive_0 + 1 ELSE positive_0,
            !.neutral_streak = IF emotion = "neutral" THEN neutral_0 + 1 ELSE neutral_0,
            !.distress_streak = IF emotion \in {"distress", "strong_distress"}
                                THEN distress_0 + 1 ELSE distress_0,
            !.strong_distress_streak = IF emotion = "strong_distress"
                                       THEN strong_0 + 1 ELSE strong_0]

\* the valence table of _update_trend, in halves (mixed = 1.5; valence.get(e, 1.5))
valence(e) ==
    CASE e = "positive" -> 6
      [] e = "neutral" -> 4
      [] e = "distress" -> 2
      [] e = "strong_distress" -> 0
      [] e = "mixed" -> 3
      [] OTHER -> 3

\* _update_trend comparing the newest entry with the middle one of the three
_update_trend_against_middle(st) ==
    IF Len(st.emotion_history) < 3
    THEN [st EXCEPT !.emotion_trend = EmotionTrend_UNKNOWN]
    ELSE LET recent == last_n(st.emotion_history, 3)
             scores == [i \in 1..3 |-> valence(recent[i])]
         IN  IF scores[3] > scores[2]
             THEN [st EXCEPT !.emotion_trend = EmotionTrend_IMPROVING]
             ELSE IF scores[3] < scores[2]
             THEN [st EXCEPT !.emotion_trend = EmotionTrend_WORSENING]
             ELSE [st EXCEPT !.emotion_trend = EmotionTrend_STABLE]

\* EnhancedConversationState._update_trend
_update_trend(st) ==
    IF Len(st.emotion_history) < 3
    THEN [st EXCEPT !.emotion_trend = EmotionTrend_UNKNOWN]
    ELSE LET recent == last_n(st.emotion_history, 3)
             scores == [i \in 1..3 |-> valence(recent[i])]
         IN  IF scores[3] > scores[1]
             THEN [st EXCEPT !.emotion_trend = EmotionTrend_IMPROVING]
             ELSE IF scores[3] < scores[1]
             THEN [st EXCEPT !.emotion_trend = EmotionTrend_WORSENING]
             ELSE [st EXCEPT !.emotion_trend = EmotionTrend_STABLE]

\* update_emotion trimming the history to its first entries (history[:N]),
\* which drops the newest emotion instead of the oldest
update_emotion_keeps_oldest(st, emotion) ==
    LET appended == Append(st.emotion_history, emotion)
        st1 == [st EXCEPT
                  !.initial_emotion = IF st.initial_emotion = None THEN emotion ELSE @,
                  !.emotion_history = IF Len(appended) > MAX_EMOTION_HISTORY
                                      THEN SubSeq(appended, 1, MAX_EMOTION_HISTORY)
                                      ELSE appended,
                  !.current_emotion = emotion]
    IN  _update_trend(_update_streaks(st1, emotion))

\* EnhancedConversationState.update_emotion
update_emotion(st, emotion) ==
    LET appended == Append(st.emotion_history, emotion)
        st1 == [st EXCEPT
                  !.initial_emotion = IF st.initial_emotion = None THEN emotion ELSE @,
                  !.emotion_history = IF Len(appended) > MAX_EMOTION_HISTORY
                                      THEN last_n(appended, MAX_EMOTION_HISTORY)
                                      ELSE appended,
                  !.current_emotion = emotion]
    IN  _update_trend(_update_streaks(st1, emotion))

\* _decrement_cooldowns removing an entry one turn early
_decrement_cooldowns_expire_early(st) ==
    LET expired == {category \in DOMAIN st.cooldowns : ~(st.cooldowns[category] > 2)}
        decremented == [category \in DOMAIN st.cooldowns |->
                           IF st.cooldowns[category] > 2
                           THEN st.cooldowns[category] - 1
                           ELSE st.cooldowns[category]]
    IN  [st EXCEPT !.cooldowns = dict_del(decremented, expired)]

\* EnhancedConversationState._decrement_cooldowns
_decrement_cooldowns(st) ==
    LET expired == {category \in DOMAIN st.cooldowns : ~(st.cooldowns[category] > 1)}
        decremented == [category \in DOMAIN st.cooldowns |->
                           IF st.cooldowns[category] > 1
                           THEN st.cooldowns[category] - 1
                           ELSE st.cooldowns[category]]
    IN  [st EXCEPT !.cooldowns = dict_del(decremented, expired)]

\* EnhancedConversationState.increment_turn
increment_turn(st) ==
    _decrement_cooldowns(
        [st EXCEPT !.turn_count = @ + 1,
                   !.memory_recall_used_this_turn = FALSE])

\* EnhancedConversationState.set_cooldown; an omitted turns argument takes the
\* configured duration
set_cooldown(st, category, turns) ==
    LET turns_1 == IF turns = NoTurns THEN COOLDOWN_CONFIG(category) ELSE TurnsValue(turns)
    IN  [st EXCEPT !.cooldowns = dict_set(@, category, turns_1)]

\* EnhancedConversationState.is_on_cooldown
is_on_cooldown(st, category) == dict_get(st.cooldowns, category, 0) > 0

-----------------------------------------------------------------------------
(* cooldown_manager.py: the per-user cooldown store *)

CM_DEFAULT_COOLDOWN == 3

\* CATEGORY_COOLDOWNS.get(category, DEFAULT_COOLDOWN)
CATEGORY_COOLDOWNS(category) ==
    CASE category = "what_happened" -> 3
      [] category = "memory_callback" -> 4
      [] category = "breathe_tip" -> 3
      [] category = "celebration" -> 2
      [] category = "grounding" -> 3
      [] OTHER -> CM_DEFAULT_COOLDOWN

\* _cooldowns[anon_id] read as a value: the user's dict, empty if the
\* defaultdict has no entry yet
cm_user_dict(store, anon_id) == dict_get(store, anon_id, EmptyDict)

\* the effect of evaluating _cooldowns[anon_id] on the defaultdict: a missing
\* entry is created
cm_touch(store, anon_id) == dict_set(store, anon_id, cm_user_dict(store, anon_id))

\* cooldown_manager.is_on_cooldown: the value returned
cm_is_on_cooldown(enabled, store, anon_id, category) ==
    IF ~enabled THEN FALSE
    ELSE dict_get(cm_user_dict(store, anon_id), category, 0) > 0

\* cooldown_manager.get_blocked_categories: the value returned
cm_get_blocked_categories(enabled, store, anon_id) ==
    IF ~enabled THEN {}
    ELSE {cat \in DOMAIN cm_user_dict(store, anon_id) : cm_user_dict(store, anon_id)[cat] > 0}

\* cooldown_manager.is_on_cooldown / get_blocked_categories: the store afterwards
cm_after_query(enabled, store, anon_id) ==
    IF ~enabled THEN store ELSE cm_touch(store, anon_id)

\* set_cooldown without the ENABLE_COOLDOWNS guard
cm_set_cooldown_unguarded(enabled, store, anon_id, category, turns) ==
    LET turns_1 == IF turns = NoTurns THEN CATEGORY_COOLDOWNS(category) ELSE TurnsValue(turns)
    IN  dict_set(store, anon_id, dict_set(cm_user_dict(store, anon_id), category, turns_1))

\* cooldown_manager.set_cooldown: the store afterwards
cm_set_cooldown(enabled, store, anon_id, category, turns) ==
    IF ~enabled THEN store
    ELSE LET turns_1 == IF turns = NoTurns THEN CATEGORY_COOLDOWNS(category) ELSE TurnsValue(turns)
         IN  dict_set(store, anon_id, dict_set(cm_user_dict(store, anon_id), category, turns_1))

\* decrement_cooldowns expiring an entry only when it is already 0
\* (`turns > 0` for `turns > 1`)
cm_decrement_cooldowns_expire_at_zero(enabled, store, anon_id) ==
    IF ~enabled THEN store
    ELSE LET d == cm_user_dict(store, anon_id)
             expired == {category \in DOMAIN d : ~(d[category] > 0)}
             decremented == [category \in DOMAIN d |->
                                IF d[category] > 0 THEN d[category] - 1 ELSE d[category]]
         IN  dict_set(store, anon_id, dict_del(decremented, expired))

\* cooldown_manager.decrement_cooldowns: the store afterwards
cm_decrement_cooldowns(enabled, store, anon_id) ==
    IF ~enabled THEN store
    ELSE LET d == cm_user_dict(store, anon_id)
             expired == {category \in DOMAIN d : ~(d[category] > 1)}
             decremented == [category \in DOMAIN d |->
                                IF d[category] > 1 THEN d[category] - 1 ELSE d[category]]
         IN  dict_set(store, anon_id, dict_del(decremented, expired))

\* cooldown_manager.reset_cooldowns: the store afterwards
cm_reset_cooldowns(store, anon_id) ==
    IF anon_id \in DOMAIN store THEN dict_del(store, {anon_id}) ELSE store

-----------------------------------------------------------------------------
(* advice_detector.py *)

VENT_ONLY_PHRASES == {
    "i just need to vent", "let me vent", "just venting",
    "need to get this off my chest", "i dont need advice", "i don't need advice",
    "dont need advice", "don't need advice", "not looking for advice",
    "just need someone to listen", "just listen", "dont tell me what to do",
    "don't tell me what to do", "let me rant", "i need to rant", "just need to talk",
    "not asking for advice", "not looking for solutions", "dont fix it", "don't fix it",
    "just let me complain", "i just want to talk", "i just wanna talk"}

ADVICE_REQUEST_PHRASES == {
    "what should i do", "what do you think i should do", "what would you do",
    "any advice", "do you have advice", "give me advice", "need advice",
    "help me figure out", "what do you suggest", "should i", "how do i",
    "how should i", "what can i do", "is there anything i can do", "help me decide",
    "i need help with", "can you help me", "what do you recommend", "your opinion",
    "your thoughts"}

\* advice_detector.RANT_STARTERS (not the set of the same name in phase_engine.py)
ADVICE_RANT_STARTERS == {
    "i just", "i cant believe", "i can't believe", "omg", "like seriously", "bruh",
    "you wont believe", "you won't believe", "i swear", "honestly", "ugh",
    "why does", "why do", "im so done", "i'm so done", "i hate", "i love how"}

RANT_MIN_LENGTH == 150

Digits == "0123456789"

\* c is matched by \w
is_word_char(c) ==
    \/ \E i \in 1..Len(LowerCase) : CharAt(LowerCase, i) = c
    \/ \E i \in 1..Len(UpperCase) : CharAt(UpperCase, i) = c
    \/ \E i \in 1..Len(Digits) : CharAt(Digits, i) = c
    \/ c = "_"

is_upper_char(c) == \E i \in 1..Len(UpperCase) : CharAt(UpperCase, i) = c

\* text.count(c) for a single character c
count_char(s, c) == Cardinality({i \in 1..Len(s) : CharAt(s, i) = c})

\* re.search(r'\b' + p + r'\b', t) for a literal p that begins and ends with a
\* word character
word_bounded(t, p) ==
    \E i \in 1..(Len(t) - Len(p) + 1) :
        /\ SubSeq(t, i, i + Len(p) - 1) = p
        /\ (i = 1 \/ ~is_word_char(CharAt(t, i - 1)))
        /\ (i + Len(p) - 1 = Len(t) \/ ~is_word_char(CharAt(t, i + Len(p))))

\* len(re.findall(r'\b[A-Z]{2,}\b', t)): the words (maximal runs of word
\* characters) of two or more characters that are all upper-case letters
caps_words(t) ==
    Cardinality({i \in 1..Len(t) :
        /\ is_word_char(CharAt(t, i))
        /\ (i = 1 \/ ~is_word_char(CharAt(t, i - 1)))
        /\ LET j == CHOOSE j \in i..Len(t) :
                      /\ \A k \in i..j : is_word_char(CharAt(t, k))
                      /\ (j = Len(t) \/ ~is_word_char(CharAt(t, j + 1)))
           IN  /\ j - i + 1 >= 2
               /\ \A k \in i..j : is_upper_char(CharAt(t, k))})

\* question_patterns, each regular expression as the set of literals it matches
question_patterns == <<
    {"what should", "what can", "what do"},
    {"how do", "how can", "how should"},
    {"is it okay", "is it normal", "is it right",
     "is this okay", "is this normal", "is this right",
     "is that okay", "is that normal", "is that right"},
    {"should i"},
    {"do you think"}>>

\* advice_detector._has_phrase
advice_has_phrase(text, phrases) ==
    \E phrase \in phrases : str_contains(str_lower(text), phrase)

\* what detect_advice_mode reads from a text
advice_features(text) ==
    [vent_phrase    |-> advice_has_phrase(text, VENT_ONLY_PHRASES),
     advice_phrase  |-> advice_has_phrase(text, ADVICE_REQUEST_PHRASES),
     rant_starter   |-> advice_has_phrase(text, ADVICE_RANT_STARTERS),
     char_count     |-> Len(text),
     word_count     |-> split_len(text),
     exclamations   |-> count_char(text, "!"),
     question_marks |-> count_char(text, "?"),
     caps_words     |-> caps_words(text),
     patterns       |-> Cardinality({i \in 1..Len(question_patterns) :
                           \E p \in question_patterns[i] : word_bounded(str_lower(text), p)})]

\* advice_features of every message, tabulated once
advice_table == [text \in AllTexts |-> advice_features(text)]

\* detect_advice_mode with the advice-request test ahead of the vent-only test
detect_advice_mode_advice_first(enabled, text, st) ==
    LET f == advice_table[text]
    IN  IF ~enabled THEN <<AdviceMode_UNKNOWN, 0, "detection_disabled">>
        ELSE IF f.advice_phrase THEN <<AdviceMode_ADVICE_OK, 10, "explicit_advice_request">>
        ELSE IF f.vent_phrase THEN <<AdviceMode_VENT_ONLY, 10, "explicit_vent_phrase">>
        ELSE <<AdviceMode_UNKNOWN, 0, "cannot_determine">>

\* detect_advice_mode without the fallback to the previously recorded mode
detect_advice_mode_forgets_previous(enabled, text, st) ==
    LET f == advice_table[text]
        vent_score ==
              (IF f.char_count > RANT_MIN_LENGTH THEN 4 ELSE 0)
            + (IF f.word_count > 30 THEN 3 ELSE 0)
            + (IF f.rant_starter THEN 3 ELSE 0)
            + (IF f.exclamations >= 2 THEN 2 ELSE 0)
            + (IF f.caps_words >= 2 THEN 1 ELSE 0)
        advice_score ==
              3 * f.patterns
            + (IF f.word_count < 15 /\ f.question_marks >= 1 THEN 2 ELSE 0)
        min10(x) == IF x < 10 THEN x ELSE 10
    IN  IF ~enabled THEN <<AdviceMode_UNKNOWN, 0, "detection_disabled">>
        ELSE IF f.vent_phrase THEN <<AdviceMode_VENT_ONLY, 10, "explicit_vent_phrase">>
        ELSE IF f.advice_phrase THEN <<AdviceMode_ADVICE_OK, 10, "explicit_advice_request">>
        ELSE IF vent_score >= 6
             THEN <<AdviceMode_VENT_ONLY, min10(vent_score), "implicit_vent_detected">>
        ELSE IF advice_score >= 5
             THEN <<AdviceMode_ADVICE_OK, min10(advice_score), "implicit_advice_seeking">>
        ELSE <<AdviceMode_UNKNOWN, 0, "cannot_determine">>

\* advice_detector.detect_advice_mode: (mode, confidence, reason), the
\* confidence and the two scores in tenths; enabled is
\* ci_config.ENABLE_ADVICE_DETECTION
detect_advice_mode(enabled, text, st) ==
    LET f == advice_table[text]
        vent_score ==
              (IF f.char_count > RANT_MIN_LENGTH THEN 4 ELSE 0)
            + (IF f.word_count > 30 THEN 3 ELSE 0)
            + (IF f.rant_starter THEN 3 ELSE 0)
            + (IF f.exclamations >= 2 THEN 2 ELSE 0)
            + (IF f.caps_words >= 2 THEN 1 ELSE 0)
        advice_score ==
              3 * f.patterns
            + (IF f.word_count < 15 /\ f.question_marks >= 1 THEN 2 ELSE 0)
        min10(x) == IF x < 10 THEN x ELSE 10
    IN  IF ~enabled THEN <<AdviceMode_UNKNOWN, 0, "detection_disabled">>
        ELSE IF f.vent_phrase THEN <<AdviceMode_VENT_ONLY, 10, "explicit_vent_phrase">>
        ELSE IF f.advice_phrase THEN <<AdviceMode_ADVICE_OK, 10, "explicit_advice_request">>
        ELSE IF vent_score >= 6
             THEN <<AdviceMode_VENT_ONLY, min10(vent_score), "implicit_vent_detected">>
        ELSE IF advice_score >= 5
             THEN <<AdviceMode_ADVICE_OK, min10(advice_score), "implicit_advice_seeking">>
        ELSE IF st.advice_mode # AdviceMode_UNKNOWN
             THEN <<st.advice_mode, 5, "using_previous_mode">>
        ELSE <<AdviceMode_UNKNOWN, 0, "cannot_determine">>

\* should_ask_about_advice without the test of the advice_asked latch
should_ask_about_advice_ignores_latch(enabled, st) ==
    IF ~enabled THEN FALSE
    ELSE IF st.advice_mode # AdviceMode_UNKNOWN THEN FALSE
    ELSE IF st.turn_count < 2 THEN FALSE
    ELSE TRUE

\* advice_detector.should_ask_about_advice: the value returned (the function
\* assigns nothing)
should_ask_about_advice(enabled, st) ==
    IF ~enabled THEN FALSE
    ELSE IF st.advice_mode # AdviceMode_UNKNOWN THEN FALSE
    ELSE IF st.advice_asked THEN FALSE
    ELSE IF st.turn_count < 2 THEN FALSE
    ELSE TRUE

-----------------------------------------------------------------------------
(* memory_manager.py: the remembered messages of each user *)

MEMORY_MAXLEN == 5

Topics == {"work", "relationship", "family", "friend", "school", "health", "money", "self"}

TOPIC_KEYWORDS(topic) ==
    CASE topic = "work" ->
            {"work", "job", "boss", "office", "meeting", "deadline", "coworker",
             "colleague", "manager", "promotion", "fired", "quit", "salary", "overtime",
             "workload", "project", "client", "team", "hired", "interview"}
      [] topic = "relationship" ->
            {"boyfriend", "girlfriend", "bf", "gf", "partner", "ex", "dating",
             "relationship", "breakup", "broke up", "crush", "love", "married",
             "husband", "wife", "spouse", "divorce", "cheated", "toxic"}
      [] topic = "family" ->
            {"mom", "dad", "mother", "father", "parent", "parents", "sibling",
             "brother", "sister", "family", "grandma", "grandpa", "aunt", "uncle",
             "cousin", "kid", "child", "children", "son", "daughter"}
      [] topic = "friend" ->
            {"friend", "friends", "bestie", "bff", "bsf", "squad", "group",
             "friendship", "buddy", "pal", "homie"}
      [] topic = "school" ->
            {"school", "college", "university", "class", "exam", "test", "study",
             "homework", "assignment", "professor", "teacher", "grade", "gpa",
             "semester", "finals", "midterm", "degree", "graduate"}
      [] topic = "health" ->
            {"sick", "ill", "health", "doctor", "hospital", "medicine", "pain",
             "headache", "tired", "sleep", "insomnia", "anxiety", "depression",
             "therapy", "therapist", "mental health", "physical"}
      [] topic = "money" ->
            {"money", "broke", "poor", "rich", "salary", "pay", "rent", "bills",
             "debt", "loan", "savings", "expensive", "afford", "budget", "financial"}
      [] topic = "self" ->
            {"myself", "self", "me", "i feel", "i am", "im feeling", "personally",
             "my life", "my own", "alone", "lonely", "worthless", "useless", "hate myself"}

\* memory_manager.extract_topics
extract_topics(text) ==
    {topic \in Topics : \E keyword \in TOPIC_KEYWORDS(topic) : str_contains(str_lower(text), keyword)}

\* extract_topics of every message, tabulated once
topics_table == [text \in AllTexts |-> extract_topics(text)]

\* text[:n]
str_prefix(text, n) == IF Len(text) <= n THEN text ELSE SubSeq(text, 1, n)

\* memory_manager.update_memory: MEMORY afterwards (a deque of maxlen 5 per user)
update_memory(memory, anon_id, emotion, text) ==
    dict_set(memory, anon_id,
        last_n(Append(dict_get(memory, anon_id, <<>>),
                      [emotion |-> emotion, text |-> text, topics |-> topics_table[text]]),
               MEMORY_MAXLEN))

\* memory_manager.get_similar_past_topic: the set of values the call can
\* return, {} standing for None. list(common_topics)[0] takes the first
\* element of a set of strings in iteration order, which the source does not
\* fix: any common topic can be returned.
get_similar_past_topic(memory, anon_id, current_text) ==
    IF anon_id \notin DOMAIN memory \/ Len(dict_get(memory, anon_id, <<>>)) < 2 THEN {}
    ELSE LET current_topics == topics_table[current_text]
             past_entries == SubSeq(memory[anon_id], 1, Len(memory[anon_id]) - 1)
             hits == {i \in 1..Len(past_entries) :
                         current_topics \cap past_entries[i].topics # {}}
         IN  IF current_topics = {} \/ hits = {} THEN {}
             ELSE LET i == CHOOSE i \in hits : \A j \in hits : j <= i
                      entry == past_entries[i]
                  IN  {[topic |-> t, past_emotion |-> entry.emotion,
                        past_text |-> str_prefix(entry.text, 50)] :
                          t \in current_topics \cap entry.topics}

\* memory_manager.get_recurring_emotion
get_recurring_emotion(memory, anon_id, emotion) ==
    IF anon_id \notin DOMAIN memory THEN 0
    ELSE Cardinality({i \in 1..Len(memory[anon_id]) : memory[anon_id][i].emotion = emotion})

-----------------------------------------------------------------------------
(* memory_recall_controller.py *)

MEMORY_RECALL_MIN_TURNS == 3
MEMORY_RECALL_MIN_OCCURRENCES == 2
\* 0.4, in tenths
MEMORY_RECALL_PROBABILITY == 4
MEMORY_ALLOWED_PHASES == {"reflecting", "celebrating", "calming"}

\* the number of templates of a pool: POSITIVE_, NEUTRAL_ and
\* DISTRESS_MEMORY_RESPONSES, keys "topic" and "emotion"
memory_templates(tone, kind) ==
    CASE tone = "positive" /\ kind = "topic"   -> 5
      [] tone = "positive" /\ kind = "emotion" -> 4
      [] tone = "neutral"  /\ kind = "topic"   -> 4
      [] tone = "neutral"  /\ kind = "emotion" -> 3
      [] tone = "distress" /\ kind = "topic"   -> 5
      [] tone = "distress" /\ kind = "emotion" -> 4

\* should_recall_memory with the turn gate one turn early
should_recall_memory_turn_gate_early(enabled, st, phase, emotion, draw) ==
    IF ~enabled THEN <<FALSE, "memory_recall_disabled">>
    ELSE IF st.turn_count < MEMORY_RECALL_MIN_TURNS - 1
         THEN <<FALSE, "turn_count_too_low_" \o ToString(st.turn_count)>>
    ELSE IF phase \notin MEMORY_ALLOWED_PHASES
         THEN <<FALSE, "phase_not_allowed_" \o phase>>
    ELSE IF st.memory_recall_used_this_turn THEN <<FALSE, "already_used_this_turn">>
    ELSE IF is_on_cooldown(st, "memory_callback") THEN <<FALSE, "on_cooldown">>
    ELSE IF draw > MEMORY_RECALL_PROBABILITY THEN <<FALSE, "probability_skip">>
    ELSE <<TRUE, "conditions_met">>

\* should_recall_memory testing the cooldown before the per-turn latch
should_recall_memory_cooldown_first(enabled, st, phase, emotion, draw) ==
    IF ~enabled THEN <<FALSE, "memory_recall_disabled">>
    ELSE IF st.turn_count < MEMORY_RECALL_MIN_TURNS
         THEN <<FALSE, "turn_count_too_low_" \o ToString(st.turn_count)>>
    ELSE IF phase \notin MEMORY_ALLOWED_PHASES
         THEN <<FALSE, "phase_not_allowed_" \o phase>>
    ELSE IF is_on_cooldown(st, "memory_callback") THEN <<FALSE, "on_cooldown">>
    ELSE IF st.memory_recall_used_this_turn THEN <<FALSE, "already_used_this_turn">>
    ELSE IF draw > MEMORY_RECALL_PROBABILITY THEN <<FALSE, "probability_skip">>
    ELSE <<TRUE, "conditions_met">>

\* MemoryRecallController.should_recall_memory: (should_recall, reason);
\* enabled is self.enabled, draw the value of random.random() in tenths
should_recall_memory(enabled, st, phase, emotion, draw) ==
    IF ~enabled THEN <<FALSE, "memory_recall_disabled">>
    ELSE IF st.turn_count < MEMORY_RECALL_MIN_TURNS
         THEN <<FALSE, "turn_count_too_low_" \o ToString(st.turn_count)>>
    ELSE IF phase \notin MEMORY_ALLOWED_PHASES
         THEN <<FALSE, "phase_not_allowed_" \o phase>>
    ELSE IF st.memory_recall_used_this_turn THEN <<FALSE, "already_used_this_turn">>
    ELSE IF is_on_cooldown(st, "memory_callback") THEN <<FALSE, "on_cooldown">>
    ELSE IF draw > MEMORY_RECALL_PROBABILITY THEN <<FALSE, "probability_skip">>
    ELSE <<TRUE, "conditions_met">>

\* a memory_info dict; the keys a dict does not carry hold None or 0
MemoryInfo(type, topic, past_emotion, emotion, count) ==
    [type |-> type, topic |-> topic, past_emotion |-> past_emotion,
     emotion |-> emotion, count |-> count]

\* MemoryRecallController.get_memory_recall: the set of values the call can
\* return, {} standing for None
get_memory_recall(enabled, memory, anon_id, text, st, emotion) ==
    IF ~enabled THEN {}
    ELSE LET past_topic == get_similar_past_topic(memory, anon_id, text)
             emotion_count == get_recurring_emotion(memory, anon_id, emotion)
         IN  IF past_topic # {}
             THEN {MemoryInfo("topic", p.topic, p.past_emotion, emotion, 0) : p \in past_topic}
             ELSE IF emotion_count >= MEMORY_RECALL_MIN_OCCURRENCES
                  THEN {MemoryInfo("emotion", None, None, emotion, emotion_count)}
                  ELSE {}

\* MemoryRecallController.format_memory_response for a memory_info that is
\* not None: the set of strings the call can return, a string being named by
\* its pool (tone, type), the template random.choice picked and the value
\* formatted into it
format_memory_response(memory_info, current_emotion) ==
    LET tone == IF current_emotion = "positive" THEN "positive"
                ELSE IF current_emotion \in {"distress", "strong_distress"} THEN "distress"
                ELSE "neutral"
    IN  {[tone |-> tone, type |-> memory_info.type, template |-> i,
          topic |-> memory_info.topic, count |-> memory_info.count] :
            i \in 1..memory_templates(tone, memory_info.type)}

\* EnhancedConversationState.add_memory_topic
add_memory_topic(st, topic) == [st EXCEPT !.memory_topics_seen = @ \cup {topic}]

\* a returned None
NoResponse == [tone |-> None, type |-> None, template |-> 0, topic |-> None, count |-> 0]

\* check_memory_recall without the bookkeeping of a topic recall
check_memory_recall_forgets_topic(enabled, memory, anon_id, text, st, phase, emotion, draw) ==
    IF ~should_recall_memory(enabled, st, phase, emotion, draw)[1]
    THEN {[response |-> NoResponse, state |-> st]}
    ELSE LET infos == get_memory_recall(enabled, memory, anon_id, text, st, emotion)
         IN  IF infos = {} THEN {[response |-> NoResponse, state |-> st]}
             ELSE {[response |-> r,
                    state |-> set_cooldown([st EXCEPT !.memory_recall_used_this_turn = TRUE],
                                           "memory_callback", NoTurns)] :
                       r \in UNION {format_memory_response(m, emotion) : m \in infos}}

\* check_memory_recall setting the per-turn latch before a candidate is found
check_memory_recall_latches_early(enabled, memory, anon_id, text, st, phase, emotion, draw) ==
    IF ~should_recall_memory(enabled, st, phase, emotion, draw)[1]
    THEN {[response |-> NoResponse, state |-> st]}
    ELSE LET infos == get_memory_recall(enabled, memory, anon_id, text, st, emotion)
         IN  IF infos = {}
             THEN {[response |-> NoResponse,
                    state |-> [st EXCEPT !.memory_recall_used_this_turn = TRUE]]}
             ELSE UNION {
                    {[response |-> r,
                      state |-> LET used == set_cooldown(
                                        [st EXCEPT !.memory_recall_used_this_turn = TRUE],
                                        "memory_callback", NoTurns)
                                IN  IF m.topic # None THEN add_memory_topic(used, m.topic)
                                    ELSE used] :
                       r \in format_memory_response(m, emotion)} : m \in infos}

\* check_memory_recall: the set of outcomes of a call, an outcome being the
\* returned response and the session state afterwards
check_memory_recall(enabled, memory, anon_id, text, st, phase, emotion, draw) ==
    IF ~should_recall_memory(enabled, st, phase, emotion, draw)[1]
    THEN {[response |-> NoResponse, state |-> st]}
    ELSE LET infos == get_memory_recall(enabled, memory, anon_id, text, st, emotion)
         IN  IF infos = {} THEN {[response |-> NoResponse, state |-> st]}
             ELSE UNION {
                    {[response |-> r,
                      state |-> LET used == set_cooldown(
                                        [st EXCEPT !.memory_recall_used_this_turn = TRUE],
                                        "memory_callback", NoTurns)
                                IN  IF m.topic # None THEN add_memory_topic(used, m.topic)
                                    ELSE used] :
                       r \in format_memory_response(m, emotion)} : m \in infos}

-----------------------------------------------------------------------------
(* advice_detector.py: the venting score *)

RANT_INDICATORS == {
    "i just need to vent", "let me vent", "just venting", "need to get this off my chest",
    "i dont need advice", "dont need advice", "not looking for advice",
    "just need someone to listen", "just listen", "dont tell me what to do", "let me rant"}

VENT_INDICATOR_SCORE == 2
VENT_LENGTH_SCORE_PER_50 == 1

\* the number of rant indicators in every message, tabulated once
rant_indicator_table ==
    [text \in AllTexts |->
        Cardinality({indicator \in RANT_INDICATORS : str_contains(str_lower(text), indicator)})]

\* advice_detector.calculate_venting_score, for a signals dict
calculate_venting_score(text, signals, st) ==
    LET char_count == Len(text)
        length_score == IF char_count > VENTING_MIN_LENGTH
                        THEN ((char_count - VENTING_MIN_LENGTH) \div 50) * VENT_LENGTH_SCORE_PER_50
                        ELSE 0
        indicator_score == rant_indicator_table[text] * VENT_INDICATOR_SCORE
        total_signals == signals.distress_count + signals.positive_count
        signal_score == IF total_signals >= 3 THEN 2 ELSE 0
        n == Len(st.emotion_history)
        repetition_score == IF n >= 2 /\ st.emotion_history[n - 1] = st.emotion_history[n]
                            THEN 1 ELSE 0
        score == length_score + indicator_score + signal_score + repetition_score
    IN  IF score < VENT_SCORE_MAX THEN score ELSE VENT_SCORE_MAX

-----------------------------------------------------------------------------
(* enhanced_conversation_state.py: messages and the session store *)

\* a signals argument: a set holding the dict, empty when the caller passes None
NoSignals == {}
SignalsValue(signals) == CHOOSE d \in signals : TRUE

\* EnhancedConversationState.add_message; "signals or {}" stores an empty
\* dict for None
add_message(st, text, emotion, signals) ==
    [st EXCEPT !.recent_messages =
        last_n(Append(@, [text |-> text, emotion |-> emotion,
                          signals |-> IF signals = NoSignals THEN EmptyDict
                                      ELSE SignalsValue(signals),
                          turn |-> st.turn_count]),
               MAX_RECENT_MESSAGES)]

\* get_enhanced_state: the store after the call (the session is created when absent)
get_enhanced_state(states, anon_id) ==
    IF anon_id \in DOMAIN states THEN states
    ELSE dict_set(states, anon_id, EnhancedConversationState(anon_id))

\* reset_enhanced_state keeping the topics seen in the conversation before
reset_enhanced_state_keeps_topics(states, anon_id) ==
    dict_set(states, anon_id,
        [EnhancedConversationState(anon_id) EXCEPT !.memory_topics_seen =
            dict_get(states, anon_id, EnhancedConversationState(anon_id)).memory_topics_seen])

\* reset_enhanced_state that starts every stored session afresh
reset_enhanced_state_for_all(states, anon_id) ==
    [x \in DOMAIN states \cup {anon_id} |-> EnhancedConversationState(x)]

\* reset_enhanced_state: the store after the call
reset_enhanced_state(states, anon_id) ==
    dict_set(states, anon_id, EnhancedConversationState(anon_id))

-----------------------------------------------------------------------------
(* phase_engine.py: the rules of a phase *)

\* get_phase_rules letting the advice mode decide in Sharing as well
get_phase_rules_advice_while_sharing(phase) ==
    LET rules(allow_questions, allow_memory_recall, tone, max_questions, allow_advice) ==
            [allow_questions |-> allow_questions, allow_memory_recall |-> allow_memory_recall,
             tone |-> tone, max_questions |-> max_questions, allow_advice |-> allow_advice]
    IN  CASE phase = Phase_OPENING     -> rules(TRUE, FALSE, "curious", 1, "False")
          [] phase = Phase_VENTING     -> rules(FALSE, FALSE, "supportive", 0, "False")
          [] phase = Phase_REFLECTING  -> rules(TRUE, TRUE, "thoughtful", 1, "check_mode")
          [] phase = Phase_CALMING     -> rules(FALSE, TRUE, "grounding", 0, "False")
          [] phase = Phase_CELEBRATING -> rules(TRUE, TRUE, "excited", 1, "False")
          [] phase = Phase_CLOSING     -> rules(FALSE, FALSE, "warm", 0, "False")
          [] OTHER                     -> rules(TRUE, FALSE, "engaged", 1, "check_mode")

\* PhaseEngine.get_phase_rules; allow_advice is False or "check_mode", kept as
\* text, and priority_categories is left out (process does not read it)
get_phase_rules(phase) ==
    LET rules(allow_questions, allow_memory_recall, tone, max_questions, allow_advice) ==
            [allow_questions |-> allow_questions, allow_memory_recall |-> allow_memory_recall,
             tone |-> tone, max_questions |-> max_questions, allow_advice |-> allow_advice]
    IN  CASE phase = Phase_OPENING     -> rules(TRUE, FALSE, "curious", 1, "False")
          [] phase = Phase_VENTING     -> rules(FALSE, FALSE, "supportive", 0, "False")
          [] phase = Phase_REFLECTING  -> rules(TRUE, TRUE, "thoughtful", 1, "check_mode")
          [] phase = Phase_CALMING     -> rules(FALSE, TRUE, "grounding", 0, "False")
          [] phase = Phase_CELEBRATING -> rules(TRUE, TRUE, "excited", 1, "False")
          [] phase = Phase_CLOSING     -> rules(FALSE, FALSE, "warm", 0, "False")
          [] OTHER                     -> rules(TRUE, FALSE, "engaged", 1, "False")

-----------------------------------------------------------------------------
(* cooldown manager object used by the layer *)

\* get_cooldown_manager().get_blocked_categories(state, phase): the current
\* key set of the session's cooldown map
blocked_categories(st, phase) == DOMAIN st.cooldowns

\* apply_cooldowns(state, reply_text): a cooldown of the configured duration
\* for every category the reply falls into; categories is that set
apply_cooldowns(st, categories) ==
    [st EXCEPT !.cooldowns =
        [category \in DOMAIN st.cooldowns \cup categories |->
            IF category \in categories THEN COOLDOWN_CONFIG(category)
            ELSE st.cooldowns[category]]]

-----------------------------------------------------------------------------
(* conversation_intelligence.py: ConversationIntelligenceLayer *)

\* IntelligenceContext(...) with the dataclass defaults
DefaultIntelligenceContext ==
    [phase |-> Phase_OPENING, phase_reason |-> "", previous_phase |-> None,
     emotion |-> "neutral", emotion_trend |-> "unknown", emotion_changed |-> FALSE,
     advice_mode |-> AdviceMode_UNKNOWN, venting_score |-> 0,
     should_ask_advice_preference |-> FALSE,
     allow_questions |-> TRUE, allow_memory_recall |-> FALSE, allow_advice |-> FALSE,
     max_questions |-> 1, recommended_tone |-> "engaged",
     blocked_categories |-> {}, memory_response |-> NoResponse,
     positive_streak |-> 0, neutral_streak |-> 0, distress_streak |-> 0,
     turn_count |-> 0, is_first_message |-> TRUE]

\* _get_default_context that leaves the phase at the dataclass default and
\* allows recall
_get_default_context_allows_recall(emotion) ==
    [DefaultIntelligenceContext EXCEPT !.emotion = emotion, !.allow_memory_recall = TRUE]

\* ConversationIntelligenceLayer._get_default_context
_get_default_context(emotion) ==
    [DefaultIntelligenceContext EXCEPT
        !.phase = Phase_SHARING, !.emotion = emotion,
        !.allow_questions = TRUE, !.allow_advice = FALSE, !.allow_memory_recall = FALSE]

\* commit_phase that leaves previous_phase as it was
commit_phase_keeps_previous(st, new_phase) == [st EXCEPT !.phase = new_phase]

\* process, step 5 after determine_phase: state.previous_phase = state.phase;
\* state.phase = new_phase
commit_phase(st, new_phase) == [st EXCEPT !.previous_phase = st.phase, !.phase = new_phase]

\* the steps of process at which the model lets an exception be raised
Step_NONE == "none"
Step_VENTING_SCORE == "calculate_venting_score"
Step_COOLDOWN_LOOKUP == "get_blocked_categories"

\* the calls process made of detect_advice_mode and determine_phase: none
NoTrace == {}

\* ConversationIntelligenceLayer.process from state.add_message to the end,
\* st_1 being the session object of anon_id after increment_turn and
\* update_emotion and states_1 the store holding it
process_from_add_message(states_1, st_1, memory, anon_id, text, emotion, signals, draw, lookup_raises) ==
    LET st_2 == add_message(st_1, text, emotion, signals)
    IN  IF signals = NoSignals
        THEN {[states |-> dict_set(states_1, anon_id, st_2), raised |-> Step_VENTING_SCORE,
               context |-> _get_default_context(emotion), trace |-> NoTrace]}
        ELSE
        LET signals_1 == SignalsValue(signals)
            venting_score == calculate_venting_score(text, signals_1, st_2)
            st_3 == [st_2 EXCEPT !.venting_score = venting_score]
            advice == detect_advice_mode(ENABLE_ADVICE_DETECTION, text, st_3)
            advice_mode == advice[1]
            st_4 == [st_3 EXCEPT !.advice_mode = advice_mode]
            phase == determine_phase(st_4, text, emotion, signals_1)
            new_phase == phase[1]
            st_5 == commit_phase(st_4, new_phase)
            rules == get_phase_rules(new_phase)
            recalls == IF rules.allow_memory_recall
                       THEN check_memory_recall(_memory_controller.enabled, memory, anon_id,
                                                text, st_5, new_phase, emotion, draw)
                       ELSE {[response |-> NoResponse, state |-> st_5]}
            allow_advice == IF rules.allow_advice = "check_mode"
                            THEN advice_mode = AdviceMode_ADVICE_OK
                            ELSE FALSE
        IN  {LET st == recall.state
                 n == Len(st.emotion_history)
             IN  [states |-> dict_set(states_1, anon_id, st),
                  raised |-> IF lookup_raises THEN Step_COOLDOWN_LOOKUP ELSE Step_NONE,
                  trace |-> {[detect_advice_mode |-> [state |-> st_3, ret |-> advice],
                              determine_phase |-> [state |-> st_4, ret |-> phase]]},
                  context |->
                    IF lookup_raises THEN _get_default_context(emotion)
                    ELSE [phase |-> new_phase, phase_reason |-> phase[2],
                          previous_phase |-> st.previous_phase,
                          emotion |-> emotion, emotion_trend |-> st.emotion_trend,
                          emotion_changed |->
                              n >= 2 /\ st.emotion_history[n] # st.emotion_history[n - 1],
                          advice_mode |-> advice_mode, venting_score |-> venting_score,
                          should_ask_advice_preference |->
                              should_ask_about_advice(ENABLE_ADVICE_DETECTION, st),
                          allow_questions |-> rules.allow_questions,
                          allow_memory_recall |-> rules.allow_memory_recall,
                          allow_advice |-> allow_advice,
                          max_questions |-> rules.max_questions,
                          recommended_tone |-> rules.tone,
                          blocked_categories |-> blocked_categories(st, new_phase),
                          memory_response |-> recall.response,
                          positive_streak |-> st.positive_streak,
                          neutral_streak |-> st.neutral_streak,
                          distress_streak |-> st.distress_streak,
                          turn_count |-> st.turn_count,
                          is_first_message |-> st.turn_count <= 1]] : recall \in recalls}

\* ConversationIntelligenceLayer.process: the set of outcomes of a call, an
\* outcome being the session store afterwards, the step that raised, the
\* returned context and, in trace, the state handed to detect_advice_mode and
\* to determine_phase with what each returned. signals = None makes signals.get raise in
\* calculate_venting_score; lookup_raises tells whether the import or the call
\* of the cooldown manager object in step 10 raises; draw is the value of
\* random.random() in tenths.
process(self, states, memory, anon_id, text, emotion, signals, draw, lookup_raises) ==
    IF ~self.enabled
    THEN {[states |-> states, raised |-> Step_NONE, context |-> _get_default_context(emotion),
           trace |-> NoTrace]}
    ELSE
    LET states_1 == get_enhanced_state(states, anon_id)
    IN  process_from_add_message(
            states_1, update_emotion(increment_turn(states_1[anon_id]), emotion),
            memory, anon_id, text, emotion, signals, draw, lookup_raises)

\* post_reply that also starts a turn
post_reply_counts_turn(self, states, anon_id, reply_categories, reply_category) ==
    IF ~self.enabled THEN states
    ELSE LET states_1 == get_enhanced_state(states, anon_id)
             st == apply_cooldowns(increment_turn(states_1[anon_id]), reply_categories)
         IN  dict_set(states_1, anon_id,
                 IF reply_category # None THEN [st EXCEPT !.last_reply_category = reply_category]
                 ELSE st)

\* post_reply that leaves the cooldowns as they are
post_reply_keeps_cooldowns(self, states, anon_id, reply_categories, reply_category) ==
    IF ~self.enabled THEN states
    ELSE LET states_1 == get_enhanced_state(states, anon_id)
             st == states_1[anon_id]
         IN  dict_set(states_1, anon_id,
                 IF reply_category # None THEN [st EXCEPT !.last_reply_category = reply_category]
                 ELSE st)

\* post_reply without the test of the master flag
post_reply_unguarded(self, states, anon_id, reply_categories, reply_category) ==
    LET states_1 == get_enhanced_state(states, anon_id)
        st == apply_cooldowns(states_1[anon_id], reply_categories)
    IN  dict_set(states_1, anon_id,
            IF reply_category # None THEN [st EXCEPT !.last_reply_category = reply_category]
            ELSE st)

\* ConversationIntelligenceLayer.post_reply: the session store afterwards;
\* reply_categories are the categories the reply text falls into
post_reply(self, states, anon_id, reply_categories, reply_category) ==
    IF ~self.enabled THEN states
    ELSE LET states_1 == get_enhanced_state(states, anon_id)
             st == apply_cooldowns(states_1[anon_id], reply_categories)
         IN  dict_set(states_1, anon_id,
                 IF reply_category # None THEN [st EXCEPT !.last_reply_category = reply_category]
                 ELSE st)

\* ConversationIntelligenceLayer.reset_user: the session store afterwards
reset_user(states, anon_id) == reset_enhanced_state(states, anon_id)

-----------------------------------------------------------------------------
(* signal_mapper.py and dialogue_manager_enhanced.py: the message handler *)

\* the keywords of the two lists that occur in a message of the model
DISTRESS_KEYWORDS == {"ugh", "mad", "panicking", "cant breathe", "sad"}
POSITIVE_KEYWORDS == {"good", "happy"}

\* signal_mapper.count_signals_in_text: the two counts the layer reads
count_signals_in_text(text) ==
    [distress_count |->
        Cardinality({keyword \in DISTRESS_KEYWORDS : str_contains(str_lower(text), keyword)}),
     positive_count |->
        Cardinality({keyword \in POSITIVE_KEYWORDS : str_contains(str_lower(text), keyword)})]

\* the counts of every message, tabulated once
signals_table == [text \in AllTexts |-> count_signals_in_text(text)]

\* handle_message, step 2: the emotion after the signal-based overrides
signal_corrected_emotion(emotion, signals) ==
    LET distress_count == signals.distress_count
        positive_count == signals.positive_count
    IN  IF distress_count >= 3 THEN "strong_distress"
        ELSE IF distress_count >= 2 /\ distress_count > positive_count THEN "distress"
        ELSE IF distress_count >= 1 /\ positive_count = 0 /\ emotion = "neutral" THEN "distress"
        ELSE IF positive_count >= 3 THEN "positive"
        ELSE IF positive_count >= 2 /\ positive_count > distress_count THEN "positive"
        ELSE IF positive_count >= 1 /\ distress_count = 0 /\ emotion = "neutral" THEN "positive"
        ELSE emotion

\* the positions of a thread in handle_message: before step 1, and before
\* steps 6, 7 and 9
Pc_RECEIVE == "receive"
Pc_GENERATE_REPLY == "generate_reply"
Pc_POST_REPLY == "post_reply_update"
Pc_UPDATE_MEMORY == "update_memory"

-----------------------------------------------------------------------------
(* Inputs *)

Users == {"u1", "u2"}

\* the user of the runs that switch the configuration flag
FlagUsers == {"u1"}

\* the emotions of the messages a session has handled before determine_phase is called
HistoryEmotions == {"positive", "neutral", "distress"}

\* the venting scores of a state handed to determine_phase
VentingScores == {VENT_SCORE_THRESHOLD - 1, VENT_SCORE_THRESHOLD}

\* the signal counts of the classifier
Signals ==
    [distress_count : 0..MaxDistressSignals, positive_count : 0..MaxPositiveSignals]

\* categories given to the cooldown manager: 2 turns, 4 turns
CmCategories == {"celebration", "memory_callback"}

\* category given to the session state's cooldown map: 4 turns
StCategories == {"memory_callback"}

\* the turns arguments of the set_cooldown calls
TurnsArgs == {NoTurns} \cup {{n} : n \in 0..MaxTurnsArg}

\* the state of a session that has handled the messages with emotions seq:
\* increment_turn and update_emotion for each, as process does
RECURSIVE Replay(_)
Replay(seq) ==
    IF Len(seq) = 0 THEN EnhancedConversationState("u1")
    ELSE update_emotion(increment_turn(Replay(SubSeq(seq, 1, Len(seq) - 1))), seq[Len(seq)])

NoCall == [op |-> "none"]

\* no set_cooldown call made yet for an entry
Unset == [set |-> FALSE, n |-> 0, k |-> 0]

NotArmed == [u \in Users |-> [c \in CmCategories |-> Unset]]

\* the stores and singletons of the orchestration layer when the modules are loaded
LayerInit ==
    /\ _enhanced_states = EmptyDict
    /\ MEMORY = EmptyDict
    /\ _intelligence_layer = [enabled |-> TRUE]
    /\ _memory_controller = [enabled |-> TRUE]
    /\ ENABLE_ADVICE_DETECTION = TRUE
    /\ processed = EmptyDict
    /\ threads = EmptyDict

-----------------------------------------------------------------------------
(* Specification of the phase engine: determine_phase applied to the states *)
(* of sessions that have handled up to MaxTurn messages                     *)

InitPhase ==
    /\ state \in {[Replay(seq) EXCEPT !.phase = p, !.venting_score = v] :
                    seq \in UNION {[1..n -> HistoryEmotions] : n \in 0..MaxTurn},
                    p \in Phases, v \in VentingScores}
    /\ _phase_engine \in [enabled : BOOLEAN]
    /\ _cooldowns = EmptyDict
    /\ ENABLE_COOLDOWNS = TRUE
    /\ call = NoCall
    /\ supplied = <<>>
    /\ cm_armed = NotArmed
    /\ st_armed = [c \in StCategories |-> Unset]
    /\ LayerInit

DeterminePhase ==
    /\ call = NoCall
    /\ \E text \in Texts, emotion \in Emotions, signals \in Signals :
        /\ call' = [op |-> "determine_phase", text |-> text, emotion |-> emotion,
                    signals |-> signals,
                    ret |-> determine_phase(state, text, emotion, signals)]
        /\ UNCHANGED <<state, _phase_engine, _cooldowns, ENABLE_COOLDOWNS,
                       supplied, cm_armed, st_armed>>
        /\ UNCHANGED layer_vars

NextPhase == DeterminePhase

SpecPhase == InitPhase /\ [][NextPhase]_vars

-----------------------------------------------------------------------------
(* Specification of the emotion tracker: update_emotion applied to a fresh *)
(* session state, MaxUpdates times                                          *)

InitEmotion ==
    /\ state = EnhancedConversationState("u1")
    /\ _phase_engine = [enabled |-> TRUE]
    /\ _cooldowns = EmptyDict
    /\ ENABLE_COOLDOWNS = TRUE
    /\ call = NoCall
    /\ supplied = <<>>
    /\ cm_armed = NotArmed
    /\ st_armed = [c \in StCategories |-> Unset]
    /\ LayerInit

UpdateEmotion ==
    /\ Len(supplied) < MaxUpdates
    /\ \E emotion \in IF Len(supplied) < FreeUpdates THEN Emotions ELSE LongRunEmotions :
        /\ state' = update_emotion(state, emotion)
        /\ supplied' = Append(supplied, emotion)
        /\ call' = [op |-> "update_emotion", emotion |-> emotion]
        /\ UNCHANGED <<_phase_engine, _cooldowns, ENABLE_COOLDOWNS, cm_armed, st_armed>>
        /\ UNCHANGED layer_vars

NextEmotion == UpdateEmotion

SpecEmotion == InitEmotion /\ [][NextEmotion]_vars

-----------------------------------------------------------------------------
(* Specification of the cooldown stores: the per-user store of the cooldown  *)
(* manager and the cooldown map of one session state                         *)

InitCooldown ==
    /\ state = EnhancedConversationState("u1")
    /\ _phase_engine = [enabled |-> TRUE]
    /\ _cooldowns = EmptyDict
    /\ ENABLE_COOLDOWNS = TRUE
    /\ call = NoCall
    /\ supplied = <<>>
    /\ cm_armed = NotArmed
    /\ st_armed = [c \in StCategories |-> Unset]
    /\ LayerInit

\* the record of a set_cooldown call
Armed(turns) == [set |-> TRUE, n |-> turns, k |-> 0]

\* the record after one more decrement-all call
Decremented(a) == [a EXCEPT !.k = IF a.set /\ a.k < a.n THEN a.k + 1 ELSE a.k]

\* cooldown_manager.set_cooldown(anon_id, category[, turns])
CmSetCooldown(anon_id) ==
    \E category \in CmCategories, turns \in TurnsArgs :
        /\ _cooldowns' = cm_set_cooldown(ENABLE_COOLDOWNS, _cooldowns, anon_id, category, turns)
        /\ cm_armed' = [cm_armed EXCEPT ![anon_id][category] =
                Armed(IF turns = NoTurns THEN CATEGORY_COOLDOWNS(category) ELSE TurnsValue(turns))]
        /\ UNCHANGED <<state, _phase_engine, ENABLE_COOLDOWNS, call, supplied, st_armed>>
        /\ UNCHANGED layer_vars

\* cooldown_manager.decrement_cooldowns(anon_id)
CmDecrementCooldowns(anon_id) ==
    /\ _cooldowns' = cm_decrement_cooldowns(ENABLE_COOLDOWNS, _cooldowns, anon_id)
    /\ cm_armed' = [cm_armed EXCEPT ![anon_id] =
            [c \in CmCategories |-> Decremented(cm_armed[anon_id][c])]]
    /\ UNCHANGED <<state, _phase_engine, ENABLE_COOLDOWNS, call, supplied, st_armed>>
    /\ UNCHANGED layer_vars

\* cooldown_manager.is_on_cooldown(anon_id, category) and
\* get_blocked_categories(anon_id): the store after the query
CmQuery(anon_id) ==
    /\ _cooldowns' = cm_after_query(ENABLE_COOLDOWNS, _cooldowns, anon_id)
    /\ UNCHANGED <<state, _phase_engine, ENABLE_COOLDOWNS, call, supplied, cm_armed, st_armed>>
    /\ UNCHANGED layer_vars

\* cooldown_manager.reset_cooldowns(anon_id)
CmResetCooldowns(anon_id) ==
    /\ _cooldowns' = cm_reset_cooldowns(_cooldowns, anon_id)
    /\ cm_armed' = [cm_armed EXCEPT ![anon_id] = [c \in CmCategories |-> Unset]]
    /\ UNCHANGED <<state, _phase_engine, ENABLE_COOLDOWNS, call, supplied, st_armed>>
    /\ UNCHANGED layer_vars

\* state.set_cooldown(category[, turns])
StSetCooldown ==
    \E category \in StCategories, turns \in TurnsArgs :
        /\ state' = set_cooldown(state, category, turns)
        /\ st_armed' = [st_armed EXCEPT ![category] =
                Armed(IF turns = NoTurns THEN COOLDOWN_CONFIG(category) ELSE TurnsValue(turns))]
        /\ UNCHANGED <<_phase_engine, _cooldowns, ENABLE_COOLDOWNS, call, supplied, cm_armed>>
        /\ UNCHANGED layer_vars

\* state.increment_turn(), which decrements every cooldown of the session
StIncrementTurn ==
    /\ state.turn_count < MaxCooldownTurns
    /\ state' = increment_turn(state)
    /\ st_armed' = [c \in StCategories |-> Decremented(st_armed[c])]
    /\ UNCHANGED <<_phase_engine, _cooldowns, ENABLE_COOLDOWNS, call, supplied, cm_armed>>
    /\ UNCHANGED layer_vars

\* a change of the configuration flag cooldown_manager.ENABLE_COOLDOWNS
SetEnableCooldowns ==
    /\ ENABLE_COOLDOWNS' = ~ENABLE_COOLDOWNS
    /\ UNCHANGED <<state, _phase_engine, _cooldowns, call, supplied, cm_armed, st_armed>>
    /\ UNCHANGED layer_vars

NextCooldown ==
    \/ \E anon_id \in Users : CmSetCooldown(anon_id)
    \/ \E anon_id \in Users : CmDecrementCooldowns(anon_id)
    \/ \E anon_id \in Users : CmQuery(anon_id)
    \/ \E anon_id \in Users : CmResetCooldowns(anon_id)
    \/ StSetCooldown
    \/ StIncrementTurn

\* both stores, cooldowns enabled throughout
SpecCooldown == InitCooldown /\ [][NextCooldown]_vars

NextCooldownFlag ==
    \/ \E anon_id \in FlagUsers : CmSetCooldown(anon_id)
    \/ \E anon_id \in FlagUsers : CmDecrementCooldowns(anon_id)
    \/ \E anon_id \in FlagUsers : CmQuery(anon_id)
    \/ \E anon_id \in FlagUsers : CmResetCooldowns(anon_id)
    \/ SetEnableCooldowns

\* one user's store of the cooldown manager, with the configuration flag
\* switched off and on
SpecCooldownFlag == InitCooldown /\ [][NextCooldownFlag]_vars

-----------------------------------------------------------------------------
(* Specification of the advice detector: detect_advice_mode and             *)
(* should_ask_about_advice applied to the states of sessions                *)

AdviceModes == {AdviceMode_VENT_ONLY, AdviceMode_ADVICE_OK, AdviceMode_UNKNOWN}

InitAdvice ==
    /\ state \in {[EnhancedConversationState("u1") EXCEPT
                      !.advice_mode = m, !.advice_asked = a, !.turn_count = t] :
                    m \in AdviceModes, a \in BOOLEAN, t \in 0..MaxTurn}
    /\ _phase_engine = [enabled |-> TRUE]
    /\ _cooldowns = EmptyDict
    /\ ENABLE_COOLDOWNS = TRUE
    /\ call = NoCall
    /\ supplied = <<>>
    /\ cm_armed = NotArmed
    /\ st_armed = [c \in StCategories |-> Unset]
    /\ _enhanced_states = EmptyDict
    /\ MEMORY = EmptyDict
    /\ _intelligence_layer = [enabled |-> TRUE]
    /\ _memory_controller = [enabled |-> TRUE]
    /\ ENABLE_ADVICE_DETECTION \in BOOLEAN
    /\ processed = EmptyDict
    /\ threads = EmptyDict

\* detect_advice_mode(text, state)
DetectAdviceMode ==
    /\ call = NoCall
    /\ \E text \in AdviceTexts :
        /\ call' = [op |-> "detect_advice_mode", text |-> text,
                    ret |-> detect_advice_mode(ENABLE_ADVICE_DETECTION, text, state)]
        /\ UNCHANGED <<state, _phase_engine, _cooldowns, ENABLE_COOLDOWNS,
                       supplied, cm_armed, st_armed>>
        /\ UNCHANGED layer_vars

\* should_ask_about_advice(state)
ShouldAskAboutAdvice ==
    /\ call = NoCall
    /\ call' = [op |-> "should_ask_about_advice",
                ret |-> should_ask_about_advice(ENABLE_ADVICE_DETECTION, state)]
    /\ UNCHANGED <<state, _phase_engine, _cooldowns, ENABLE_COOLDOWNS,
                   supplied, cm_armed, st_armed>>
    /\ UNCHANGED layer_vars

NextAdvice ==
    \/ DetectAdviceMode
    \/ ShouldAskAboutAdvice

SpecAdvice == InitAdvice /\ [][NextAdvice]_vars

-----------------------------------------------------------------------------
(* Specification: memory recall on one session and its message memory *)

MaxRecallTurn == 7
MaxRemembered == 2

RecallPhases == {"reflecting", "calming", "venting"}
RecallEmotions == {"positive", "distress", "neutral"}
RememberedEmotions == {"positive", "distress"}
RecallTexts == {"ok", "my boss is mad", "salary day"}
\* values of random.random(), in tenths
Draws == {4, 5}

InitRecall ==
    /\ state = EnhancedConversationState("u1")
    /\ _phase_engine = [enabled |-> TRUE]
    /\ _cooldowns = EmptyDict
    /\ ENABLE_COOLDOWNS = TRUE
    /\ call = NoCall
    /\ supplied = <<>>
    /\ cm_armed = NotArmed
    /\ st_armed = [c \in StCategories |-> Unset]
    /\ _enhanced_states = EmptyDict
    /\ MEMORY = EmptyDict
    /\ _intelligence_layer = [enabled |-> TRUE]
    /\ _memory_controller \in {[enabled |-> b] : b \in BOOLEAN}
    /\ ENABLE_ADVICE_DETECTION = TRUE
    /\ processed = EmptyDict
    /\ threads = EmptyDict

\* state.increment_turn(), the start of a turn
RecallIncrementTurn ==
    /\ state.turn_count < MaxRecallTurn
    /\ state' = increment_turn(state)
    /\ call' = NoCall
    /\ st_armed' = [c \in StCategories |-> Decremented(st_armed[c])]
    /\ UNCHANGED <<_phase_engine, _cooldowns, ENABLE_COOLDOWNS, supplied, cm_armed,
                   _enhanced_states, MEMORY, _intelligence_layer, _memory_controller,
                   ENABLE_ADVICE_DETECTION, processed, threads>>

\* memory_manager.update_memory(anon_id, emotion, text)
UpdateMemory ==
    /\ Len(dict_get(MEMORY, state.anon_id, <<>>)) < MaxRemembered
    /\ \E emotion \in RememberedEmotions, text \in RecallTexts :
        /\ MEMORY' = update_memory(MEMORY, state.anon_id, emotion, text)
        /\ call' = NoCall
        /\ UNCHANGED <<state, _phase_engine, _cooldowns, ENABLE_COOLDOWNS, supplied, cm_armed,
                       st_armed, _enhanced_states, _intelligence_layer, _memory_controller,
                       ENABLE_ADVICE_DETECTION, processed, threads>>

\* controller.should_recall_memory(state, phase, emotion); the call changes
\* nothing, so what can follow it is explored from the state before it
ShouldRecallMemory ==
    /\ call.op # "should_recall_memory"
    /\ \E phase \in RecallPhases, emotion \in RecallEmotions, draw \in Draws :
        /\ call' = [op |-> "should_recall_memory", phase |-> phase, draw |-> draw,
                    ret |-> should_recall_memory(_memory_controller.enabled, state,
                                                 phase, emotion, draw)]
        /\ UNCHANGED <<state, _phase_engine, _cooldowns, ENABLE_COOLDOWNS, supplied, cm_armed,
                       st_armed>>
        /\ UNCHANGED layer_vars

\* check_memory_recall(anon_id, text, state, phase, emotion)
CheckMemoryRecall ==
    /\ call.op # "should_recall_memory"
    /\ \E text \in RecallTexts, phase \in RecallPhases, emotion \in RecallEmotions, draw \in Draws :
        \E outcome \in check_memory_recall(_memory_controller.enabled, MEMORY, state.anon_id,
                                           text, state, phase, emotion, draw) :
            /\ state' = outcome.state
            /\ call' = [op |-> "check_memory_recall", ret |-> outcome.response]
            /\ st_armed' = IF outcome.response = NoResponse THEN st_armed
                           ELSE [st_armed EXCEPT !["memory_callback"] =
                                    Armed(COOLDOWN_CONFIG("memory_callback"))]
            /\ UNCHANGED <<_phase_engine, _cooldowns, ENABLE_COOLDOWNS, supplied, cm_armed>>
            /\ UNCHANGED layer_vars

NextRecall ==
    \/ RecallIncrementTurn
    \/ UpdateMemory
    \/ ShouldRecallMemory
    \/ CheckMemoryRecall

SpecRecall == InitRecall /\ [][NextRecall]_vars

-----------------------------------------------------------------------------
(* Specification of the orchestration layer: process, post_reply and        *)
(* reset_user on the session store, with the message memory and the         *)
(* cooldown manager's store beside it                                        *)

MaxLayerTurn == 3
\* the messages handled for the second user
MaxOtherTurn == 1

\* the messages of the first user: text, emotion and signals argument
LayerMessages == {
    [text |-> "ok", emotion |-> "neutral",
     signals |-> {[distress_count |-> 0, positive_count |-> 0]}],
    [text |-> "salary day", emotion |-> "positive",
     signals |-> {[distress_count |-> 0, positive_count |-> 0]}],
    [text |-> "ok", emotion |-> "neutral", signals |-> NoSignals]}

\* the message of the second user
OtherMessages == {
    [text |-> "ok", emotion |-> "neutral",
     signals |-> {[distress_count |-> 0, positive_count |-> 0]}]}

MessagesOf(anon_id) == IF anon_id = "u1" THEN LayerMessages ELSE OtherMessages

\* the replies: the categories the text falls into and the explicit category
Replies == {
    [categories |-> {}, category |-> None],
    [categories |-> {"celebration_hype"}, category |-> "celebration_hype"]}

\* the remembered message
RememberedMessages == {[text |-> "salary day", emotion |-> "positive"]}

\* the user who is replied to, whose messages are remembered and who is reset
MainUsers == {"u1"}

\* the history record of a session just created or reset
NotProcessed == [calls |-> 0, asked |-> 0]

InitLayer ==
    /\ state = EnhancedConversationState("u1")
    /\ _phase_engine = [enabled |-> TRUE]
    /\ _cooldowns = EmptyDict
    /\ ENABLE_COOLDOWNS = TRUE
    /\ call = NoCall
    /\ supplied = <<>>
    /\ cm_armed = NotArmed
    /\ st_armed = [c \in StCategories |-> Unset]
    /\ _enhanced_states = EmptyDict
    /\ MEMORY = EmptyDict
    /\ _intelligence_layer \in {[enabled |-> b] : b \in BOOLEAN}
    /\ _memory_controller = [enabled |-> TRUE]
    /\ ENABLE_ADVICE_DETECTION = TRUE
    /\ processed = [u \in Users |-> NotProcessed]
    /\ threads = EmptyDict

\* process(anon_id, text, emotion, signals); the call record keeps the phase
\* the session held before the call, if there was a session
Process(anon_id) ==
    /\ processed[anon_id].calls < (IF anon_id \in MainUsers THEN MaxLayerTurn
                                                             ELSE MaxOtherTurn)
    /\ \E message \in MessagesOf(anon_id), draw \in Draws, lookup_raises \in BOOLEAN :
        \E outcome \in process(_intelligence_layer, _enhanced_states, MEMORY, anon_id,
                               message.text, message.emotion, message.signals,
                               draw, lookup_raises) :
            /\ _enhanced_states' = outcome.states
            /\ call' = [op |-> "process", anon_id |-> anon_id, raised |-> outcome.raised,
                        ret |-> outcome.context, trace |-> outcome.trace,
                        phase_before |-> IF anon_id \in DOMAIN _enhanced_states
                                         THEN {_enhanced_states[anon_id].phase} ELSE {}]
            /\ processed' = [processed EXCEPT ![anon_id] =
                    [calls |-> @.calls + 1,
                     asked |-> @.asked +
                        IF outcome.context.should_ask_advice_preference THEN 1 ELSE 0]]
            /\ UNCHANGED <<state, _phase_engine, _cooldowns, ENABLE_COOLDOWNS, supplied,
                           cm_armed, st_armed, MEMORY, _intelligence_layer,
                           _memory_controller, ENABLE_ADVICE_DETECTION, threads>>

\* post_reply(anon_id, reply_text, reply_category)
PostReply(anon_id) ==
    \E reply \in Replies :
        /\ _enhanced_states' = post_reply(_intelligence_layer, _enhanced_states, anon_id,
                                          reply.categories, reply.category)
        /\ call' = NoCall
        /\ UNCHANGED <<state, _phase_engine, _cooldowns, ENABLE_COOLDOWNS, supplied,
                       cm_armed, st_armed, MEMORY, _intelligence_layer,
                       _memory_controller, ENABLE_ADVICE_DETECTION, processed, threads>>

\* reset_user(anon_id); the call record keeps the turn count the session had
ResetUser(anon_id) ==
    /\ _enhanced_states' = reset_user(_enhanced_states, anon_id)
    /\ call' = [op |-> "reset_user", anon_id |-> anon_id,
                turns_before |-> dict_get(_enhanced_states, anon_id,
                                          EnhancedConversationState(anon_id)).turn_count]
    /\ processed' = [processed EXCEPT ![anon_id] = NotProcessed]
    /\ UNCHANGED <<state, _phase_engine, _cooldowns, ENABLE_COOLDOWNS, supplied,
                   cm_armed, st_armed, MEMORY, _intelligence_layer,
                   _memory_controller, ENABLE_ADVICE_DETECTION, threads>>

\* memory_manager.update_memory(anon_id, emotion, text), the last step of a
\* handled message
RememberMessage(anon_id) ==
    /\ Len(dict_get(MEMORY, anon_id, <<>>)) < MaxRemembered
    /\ \E message \in RememberedMessages :
        /\ MEMORY' = update_memory(MEMORY, anon_id, message.emotion, message.text)
        /\ call' = NoCall
        /\ UNCHANGED <<state, _phase_engine, _cooldowns, ENABLE_COOLDOWNS, supplied,
                       cm_armed, st_armed, _enhanced_states, _intelligence_layer,
                       _memory_controller, ENABLE_ADVICE_DETECTION, processed, threads>>

\* cooldown_manager.set_cooldown(anon_id, "memory_callback")
BlockCategory(anon_id) ==
    /\ _cooldowns' = cm_set_cooldown(ENABLE_COOLDOWNS, _cooldowns, anon_id,
                                     "memory_callback", NoTurns)
    /\ cm_armed' = [cm_armed EXCEPT ![anon_id]["memory_callback"] =
                        Armed(CATEGORY_COOLDOWNS("memory_callback"))]
    /\ call' = NoCall
    /\ UNCHANGED <<state, _phase_engine, ENABLE_COOLDOWNS, supplied, st_armed>>
    /\ UNCHANGED layer_vars

NextLayer ==
    \/ \E anon_id \in Users : Process(anon_id)
    \/ \E anon_id \in MainUsers : PostReply(anon_id)
    \/ \E anon_id \in MainUsers : ResetUser(anon_id)
    \/ \E anon_id \in MainUsers : RememberMessage(anon_id)
    \/ \E anon_id \in MainUsers : BlockCategory(anon_id)

SpecLayer == InitLayer /\ [][NextLayer]_vars

-----------------------------------------------------------------------------
(* Properties of determine_phase (SpecPhase) *)

\* a determine_phase call of the enabled engine has been made
PhaseCalled == call.op = "determine_phase" /\ _phase_engine.enabled

\* the conditions of the override rules, stated on the call's arguments
ClosingPhrasePresent == _has_phrase(call.text, CLOSING_PHRASES)

CalmingCondition ==
    \/ call.emotion = "strong_distress"
    \/ _has_phrase(call.text, CALMING_TRIGGERS)
    \/ state.distress_streak >= 2

CelebratingCondition ==
    /\ call.emotion = "positive"
    /\ \/ call.signals.positive_count >= 3
       \/ _has_phrase(call.text, CELEBRATION_TRIGGERS)
       \/ state.positive_streak >= 2

VentingCondition ==
    \/ Len(call.text) > 100
    \/ word_count_table[call.text] > 20
    \/ _has_phrase(call.text, RANT_STARTERS)
    \/ call.signals.distress_count + call.signals.positive_count >= 3
    \/ state.venting_score >= 3

\* the reasons returned by the current-phase transition table
TableReasons == {
    "opening_to_sharing_positive", "opening_to_sharing_neutral",
    "opening_to_venting_distress", "opening_to_sharing_default",
    "sharing_to_reflecting_pause", "sharing_to_venting_distress", "stay_sharing",
    "venting_to_reflecting_pause", "stay_venting",
    "reflecting_to_venting_resume", "reflecting_to_celebrating_improved",
    "reflecting_to_calming_worsening", "stay_reflecting",
    "calming_to_reflecting_stabilized", "stay_calming",
    "celebrating_to_sharing_neutral", "celebrating_to_reflecting_shift", "stay_celebrating",
    "closing_to_sharing_continued", "stay_closing", "no_transition"}

\* C1: with the phase engine enabled, determine_phase returns
\* (Opening, first_message) whenever state.turn_count <= 1, whatever the text
\* (closing and crisis phrases included), emotion, signals, streaks, venting
\* score and current phase.
C1_FirstMessageIsOpening ==
    (PhaseCalled /\ state.turn_count <= 1)
        => call.ret = <<Phase_OPENING, "first_message">>

\* a first message with a closing phrase, a crisis phrase and strong distress,
\* in a state whose phase is Venting, was answered with Opening
C1_Witness ==
    /\ PhaseCalled
    /\ state.turn_count = 1
    /\ state.phase = Phase_VENTING
    /\ ClosingPhrasePresent
    /\ _has_phrase(call.text, CALMING_TRIGGERS)
    /\ call.emotion = "strong_distress"
    /\ call.ret[1] = Phase_OPENING

\* C2: for turn_count >= 2, a text containing a closing phrase yields
\* (Closing, exit_phrase_detected) whatever the current phase, the emotion
\* (strong_distress included), crisis phrases, streaks, signals and venting
\* indicators.
C2_ClosingPhraseWins ==
    (PhaseCalled /\ state.turn_count >= 2 /\ ClosingPhrasePresent)
        => call.ret = <<Phase_CLOSING, "exit_phrase_detected">>

\* Closing was returned for a strong_distress message that also holds a crisis
\* phrase, in phase Venting after a distress streak
C2_Witness ==
    /\ PhaseCalled
    /\ state.turn_count >= 2
    /\ state.phase = Phase_VENTING
    /\ state.distress_streak >= 2
    /\ call.text = "Goodbye, I am PANICKING"
    /\ call.emotion = "strong_distress"
    /\ call.ret = <<Phase_CLOSING, "exit_phrase_detected">>

\* C3: for turn_count >= 2 and a text without closing phrase, strong_distress,
\* a crisis phrase or a distress streak >= 2 yields Calming whatever the current
\* phase, positive signals, celebration phrases and venting indicators; three
\* consecutive distress updates give distress streak 3, and the next
\* transition is then Calming.
C3_CalmingOverride ==
    /\ (PhaseCalled /\ state.turn_count >= 2 /\ ~ClosingPhrasePresent /\ CalmingCondition)
            => call.ret[1] = Phase_CALMING
    /\ (/\ Len(state.emotion_history) >= 3
        /\ \A i \in 1..3 : last_n(state.emotion_history, 3)[i] = "distress")
            => /\ state.distress_streak >= 3
               /\ (PhaseCalled /\ ~ClosingPhrasePresent) => call.ret[1] = Phase_CALMING

\* after three distress messages, a positive message with three positive
\* signals, a celebration phrase and a rant starter was answered with Calming
C3_Witness ==
    /\ PhaseCalled
    /\ state.emotion_history = <<"distress", "distress", "distress">>
    /\ state.distress_streak = 3
    /\ call.emotion = "positive"
    /\ call.signals.positive_count = 3
    /\ call.text = "yay ugh"
    /\ call.ret = <<Phase_CALMING, "distress_streak_threshold">>

\* C4: for turn_count >= 2, without closing phrase and calming condition: a
\* positive emotion with >= 3 positive signals, a celebration phrase or a
\* positive streak >= 2 yields Celebrating even if the venting heuristic would
\* fire; with a non-positive emotion the celebrating rule never fires.
C4_CelebratingBeforeVenting ==
    (PhaseCalled /\ state.turn_count >= 2 /\ ~ClosingPhrasePresent /\ ~CalmingCondition)
        => /\ CelebratingCondition
                => call.ret = <<Phase_CELEBRATING, "positive_celebration_trigger">>
           /\ call.emotion # "positive"
                => call.ret[2] # "positive_celebration_trigger"

\* Celebrating was returned for a long positive message with three positive
\* signals in a state whose venting score is at the threshold
C4_Witness ==
    /\ PhaseCalled
    /\ state.turn_count >= 2
    /\ call.text = TextLongChars
    /\ call.emotion = "positive"
    /\ call.signals.positive_count = 3
    /\ state.venting_score >= VENT_SCORE_THRESHOLD
    /\ VentingCondition
    /\ call.ret[1] = Phase_CELEBRATING

\* C5: for turn_count >= 2, when no closing, calming or celebrating rule
\* applies, (Venting, venting_detected) is returned exactly when the text is
\* long (> 100 characters or > 20 words), or holds a rant starter, or
\* distress_count + positive_count >= 3, or venting_score >= 3; otherwise the
\* result is that of the current-phase transition table.
C5_VentingHeuristic ==
    (/\ PhaseCalled /\ state.turn_count >= 2
     /\ ~ClosingPhrasePresent /\ ~CalmingCondition /\ ~CelebratingCondition)
        => /\ VentingCondition <=> call.ret = <<Phase_VENTING, "venting_detected">>
           /\ ~VentingCondition => call.ret[2] \in TableReasons
           /\ VentingCondition => call.ret[2] \notin TableReasons

\* a 21-word message of 83 characters, without phrases or signals, received in
\* a state whose venting score is below the threshold, was answered with Venting
C5_Witness ==
    /\ PhaseCalled
    /\ state.turn_count >= 2
    /\ state.venting_score < VENT_SCORE_THRESHOLD
    /\ call.emotion = "neutral"
    /\ call.text = TextLongWords
    /\ call.signals = [distress_count |-> 0, positive_count |-> 0]
    /\ call.ret = <<Phase_VENTING, "venting_detected">>

-----------------------------------------------------------------------------
(* Properties of update_emotion (SpecEmotion) *)

\* the emotion of the latest update_emotion call
LatestEmotion == supplied[Len(supplied)]

\* C6: after any sequence of update_emotion calls on a fresh state, at most one
\* of the positive, neutral and distress streaks is non-zero; the
\* strong-distress streak is non-zero only when the latest emotion is
\* strong_distress, and then the distress streak is non-zero too; a counter
\* whose category differs from the incoming emotion is 0.
C6_StreaksMutuallyExclusive ==
    Len(supplied) >= 1 =>
        /\ Cardinality({name \in {"positive", "neutral", "distress"} :
                CASE name = "positive" -> state.positive_streak # 0
                  [] name = "neutral" -> state.neutral_streak # 0
                  [] name = "distress" -> state.distress_streak # 0}) <= 1
        /\ state.strong_distress_streak # 0 =>
                LatestEmotion = "strong_distress" /\ state.distress_streak # 0
        /\ LatestEmotion # "positive" => state.positive_streak = 0
        /\ LatestEmotion # "neutral" => state.neutral_streak = 0
        /\ LatestEmotion \notin {"distress", "strong_distress"} => state.distress_streak = 0
        /\ LatestEmotion # "strong_distress" => state.strong_distress_streak = 0

\* after distress, strong_distress, strong_distress the distress streak is 3
\* and the strong-distress streak is 2, the other two being 0
C6_Witness ==
    /\ call.op = "update_emotion"
    /\ supplied = <<"distress", "strong_distress", "strong_distress">>
    /\ state.distress_streak = 3
    /\ state.strong_distress_streak = 2
    /\ state.positive_streak = 0
    /\ state.neutral_streak = 0

\* C7: after k update_emotion calls on a fresh state, emotion_history has
\* length min(k, 10) and holds the last min(k, 10) emotions supplied, in the
\* order supplied.
C7_HistoryIsLastTen ==
    LET k == Len(supplied)
        h == state.emotion_history
    IN  /\ Len(h) = IF k < 10 THEN k ELSE 10
        /\ \A i \in 1..Len(h) : h[i] = supplied[k - Len(h) + i]

\* an eleventh emotion was recorded and the first one, different from the
\* second, was evicted
C7_Witness ==
    /\ call.op = "update_emotion"
    /\ Len(supplied) = 11
    /\ Len(state.emotion_history) = 10
    /\ supplied[1] # supplied[2]
    /\ state.emotion_history[1] = supplied[2]
    /\ state.emotion_history[10] = supplied[11]

-----------------------------------------------------------------------------
(* Properties of the cooldown stores (SpecCooldown, SpecCooldownFlag) *)

\* the categories of the user's stored map
cm_keys(anon_id) == DOMAIN cm_user_dict(_cooldowns, anon_id)

\* C8: for every n >= 1, after a category's cooldown is set to n turns and not
\* set again, the category is reported blocked after each of the first n-1
\* decrement-all calls, and is absent from the blocked set and from the map
\* after the n-th; for the cooldown manager and for the session state's map.
C8_BlockedUntilNthDecrement ==
    /\ \A u \in Users, c \in CmCategories :
          (cm_armed[u][c].set /\ cm_armed[u][c].n >= 1) =>
              IF cm_armed[u][c].k < cm_armed[u][c].n
              THEN /\ cm_is_on_cooldown(ENABLE_COOLDOWNS, _cooldowns, u, c)
                   /\ c \in cm_get_blocked_categories(ENABLE_COOLDOWNS, _cooldowns, u)
              ELSE /\ ~cm_is_on_cooldown(ENABLE_COOLDOWNS, _cooldowns, u, c)
                   /\ c \notin cm_get_blocked_categories(ENABLE_COOLDOWNS, _cooldowns, u)
                   /\ c \notin cm_keys(u)
    /\ \A c \in StCategories :
          (st_armed[c].set /\ st_armed[c].n >= 1) =>
              IF st_armed[c].k < st_armed[c].n
              THEN is_on_cooldown(state, c)
              ELSE /\ ~is_on_cooldown(state, c)
                   /\ c \notin DOMAIN state.cooldowns

\* u1's 4-turn cooldown is gone after the 4th decrement while u2's 2-turn
\* cooldown is still blocked after the 1st, and the session's 4-turn cooldown
\* is still blocked after the 3rd turn
C8_Witness ==
    /\ cm_armed["u1"]["memory_callback"] = [set |-> TRUE, n |-> 4, k |-> 4]
    /\ "memory_callback" \notin cm_keys("u1")
    /\ cm_armed["u2"]["celebration"] = [set |-> TRUE, n |-> 2, k |-> 1]
    /\ cm_get_blocked_categories(ENABLE_COOLDOWNS, _cooldowns, "u2") = {"celebration"}
    /\ st_armed["memory_callback"] = [set |-> TRUE, n |-> 4, k |-> 3]
    /\ is_on_cooldown(state, "memory_callback")
    /\ state.turn_count >= 3

\* C9: after any sequence of set-cooldown calls (default or caller-supplied
\* turns) and decrement-all calls, every entry present in a cooldown map has a
\* value >= 1, so is_on_cooldown(category) is true exactly when the category
\* is a key of the map.
C9_StoredValuesPositive ==
    /\ \A u \in DOMAIN _cooldowns : \A c \in DOMAIN _cooldowns[u] : _cooldowns[u][c] >= 1
    /\ \A u \in Users, c \in CmCategories :
          cm_is_on_cooldown(ENABLE_COOLDOWNS, _cooldowns, u, c) <=> c \in cm_keys(u)
    /\ \A c \in DOMAIN state.cooldowns : state.cooldowns[c] >= 1
    /\ \A c \in StCategories : is_on_cooldown(state, c) <=> c \in DOMAIN state.cooldowns

\* C10 as stated: a cooldown set (at any time, disabled included) and not yet
\* expired is reported as blocked whenever the flag is enabled.
C10_SetWhileDisabledIsReported ==
    \A u \in Users, c \in CmCategories :
        (/\ ENABLE_COOLDOWNS
         /\ cm_armed[u][c].set
         /\ cm_armed[u][c].n >= 1
         /\ cm_armed[u][c].k < cm_armed[u][c].n)
            => cm_is_on_cooldown(ENABLE_COOLDOWNS, _cooldowns, u, c)

\* C10: while cooldowns are disabled by configuration, is_on_cooldown is false
\* and the blocked set is empty for every user and category, and set-cooldown
\* and decrement-all leave the stored map unchanged (the only change of the
\* store while disabled is a reset), so a cooldown set while disabled is not
\* stored.
C10_DisabledIsInert ==
    /\ [](~ENABLE_COOLDOWNS =>
            \A u \in Users :
                /\ cm_get_blocked_categories(ENABLE_COOLDOWNS, _cooldowns, u) = {}
                /\ \A c \in CmCategories :
                      ~cm_is_on_cooldown(ENABLE_COOLDOWNS, _cooldowns, u, c))
    /\ [][(~ENABLE_COOLDOWNS /\ ~ENABLE_COOLDOWNS') =>
            \/ _cooldowns' = _cooldowns
            \/ \E u \in Users : _cooldowns' = cm_reset_cooldowns(_cooldowns, u)]_vars

\* disabled: memory_callback, stored before the flag was switched off, is
\* still in the map but not reported, and the celebration cooldown set since
\* is not in the map
C10_Witness ==
    /\ ~ENABLE_COOLDOWNS
    /\ cm_armed["u1"]["memory_callback"].set
    /\ dict_get(cm_user_dict(_cooldowns, "u1"), "memory_callback", 0) >= 1
    /\ ~cm_is_on_cooldown(ENABLE_COOLDOWNS, _cooldowns, "u1", "memory_callback")
    /\ cm_armed["u1"]["celebration"] = [set |-> TRUE, n |-> 2, k |-> 0]
    /\ "celebration" \notin cm_keys("u1")

-----------------------------------------------------------------------------
(* Properties of the advice detector (SpecAdvice) *)

\* C15: with advice detection enabled, detect_advice_mode returns
\* (VENT_ONLY, 1.0, explicit_vent_phrase) for every text containing a vent-only
\* phrase, whatever the state's previous mode and even when the text also has
\* an advice-request phrase or question patterns; an advice-request phrase
\* yields (ADVICE_OK, 1.0, explicit_advice_request) only when no vent-only
\* phrase is present.
C15_VentPhraseFirst ==
    (call.op = "detect_advice_mode" /\ ENABLE_ADVICE_DETECTION) =>
        /\ advice_has_phrase(call.text, VENT_ONLY_PHRASES)
              => call.ret = <<AdviceMode_VENT_ONLY, 10, "explicit_vent_phrase">>
        /\ advice_has_phrase(call.text, ADVICE_REQUEST_PHRASES)
              => (call.ret = <<AdviceMode_ADVICE_OK, 10, "explicit_advice_request">>
                    <=> ~advice_has_phrase(call.text, VENT_ONLY_PHRASES))
        /\ call.ret[3] = "explicit_advice_request"
              => advice_has_phrase(call.text, ADVICE_REQUEST_PHRASES)

\* VENT_ONLY was returned for an upper-case vent phrase followed by an advice
\* question, for a session whose previous mode was ADVICE_OK
C15_Witness ==
    /\ call.op = "detect_advice_mode"
    /\ ENABLE_ADVICE_DETECTION
    /\ call.text = "I JUST NEED TO VENT, what should i do?"
    /\ state.advice_mode = AdviceMode_ADVICE_OK
    /\ call.ret = <<AdviceMode_VENT_ONLY, 10, "explicit_vent_phrase">>

\* the three conditions of the advice-preference question
AskConditions ==
    /\ state.advice_mode = AdviceMode_UNKNOWN
    /\ ~state.advice_asked
    /\ state.turn_count >= 2

\* C16: should_ask_about_advice(state) returns true only if advice_mode is
\* UNKNOWN, advice_asked is false and turn_count >= 2; with advice detection
\* enabled it returns true whenever all three hold; it never modifies the state.
C16_ShouldAskExactlyWhen ==
    /\ [](call.op = "should_ask_about_advice" =>
            /\ call.ret => AskConditions
            /\ (ENABLE_ADVICE_DETECTION /\ AskConditions) => call.ret)
    /\ [][call'.op = "should_ask_about_advice" => state' = state]_vars

\* the question is due at turn 2 of a session with unknown mode that was not asked
C16_Witness ==
    /\ call.op = "should_ask_about_advice"
    /\ ENABLE_ADVICE_DETECTION
    /\ state.turn_count = 2
    /\ AskConditions
    /\ call.ret

\* C18: should_recall_memory returns (false, ...) whenever turn_count is below
\* MEMORY_RECALL_MIN_TURNS (3), whatever the phase, emotion, latch, cooldown
\* and random draw; at turn_count = 3 the turn gate does not reject.
C18_TurnGate ==
    call.op = "should_recall_memory" =>
        /\ state.turn_count < 3 => ~call.ret[1]
        /\ (_memory_controller.enabled /\ state.turn_count = 3) =>
              call.ret[2] # "turn_count_too_low_3"
        /\ (/\ _memory_controller.enabled
            /\ state.turn_count = 3
            /\ call.phase \in {"reflecting", "celebrating", "calming"}
            /\ ~state.memory_recall_used_this_turn
            /\ dict_get(state.cooldowns, "memory_callback", 0) = 0
            /\ call.draw <= 4) => call.ret[1]

\* at turn 2 the recall is rejected although every later gate would pass
C18_Witness ==
    /\ call.op = "should_recall_memory"
    /\ _memory_controller.enabled
    /\ state.turn_count = 2
    /\ call.phase = "reflecting"
    /\ ~state.memory_recall_used_this_turn
    /\ call.draw = 4
    /\ call.ret = <<FALSE, "turn_count_too_low_2">>

\* the gates of should_recall_memory in their order: TRUE where the gate rejects
RecallGateRejects ==
    << ~_memory_controller.enabled,
       state.turn_count < 3,
       call.phase \notin {"reflecting", "celebrating", "calming"},
       state.memory_recall_used_this_turn,
       dict_get(state.cooldowns, "memory_callback", 0) > 0,
       call.draw > 4 >>

\* the reason each gate gives
RecallGateReasons ==
    << "memory_recall_disabled",
       "turn_count_too_low_" \o ToString(state.turn_count),
       "phase_not_allowed_" \o call.phase,
       "already_used_this_turn",
       "on_cooldown",
       "probability_skip" >>

\* C19: should_recall_memory tests, in this order, feature disabled,
\* turn_count < 3, phase not in {reflecting, celebrating, calming}, recall
\* already used this turn, memory_callback on cooldown, random draw above the
\* probability; it returns the reason of the first gate that rejects, and
\* (true, conditions_met) only if no gate rejects.
C19_GateOrder ==
    call.op = "should_recall_memory" =>
        LET rejecting == {i \in 1..6 : RecallGateRejects[i]}
        IN  IF rejecting = {}
            THEN call.ret = <<TRUE, "conditions_met">>
            ELSE call.ret = <<FALSE, RecallGateReasons[CHOOSE i \in rejecting :
                                                        \A j \in rejecting : i <= j]>>

\* the latch and the cooldown both reject: the latch is reported
C19_Witness ==
    /\ call.op = "should_recall_memory"
    /\ _memory_controller.enabled
    /\ state.turn_count >= 3
    /\ call.phase = "calming"
    /\ state.memory_recall_used_this_turn
    /\ is_on_cooldown(state, "memory_callback")
    /\ call.draw = 5
    /\ call.ret = <<FALSE, "already_used_this_turn">>

\* C20: whenever check_memory_recall returns a response, afterwards
\* memory_recall_used_this_turn is true, memory_callback is on cooldown for
\* its configured 4 turns, and the topic of a topic recall is in
\* memory_topics_seen.
C20_RecallBookkeeping ==
    (call.op = "check_memory_recall" /\ call.ret # NoResponse) =>
        /\ state.memory_recall_used_this_turn
        /\ dict_get(state.cooldowns, "memory_callback", 0) = 4
        /\ call.ret.type = "topic" => call.ret.topic \in state.memory_topics_seen

\* a topic recall of "money", one of the two topics shared with the past message
C20_Witness ==
    /\ call.op = "check_memory_recall"
    /\ call.ret # NoResponse
    /\ call.ret.type = "topic"
    /\ call.ret.topic = "money"
    /\ "work" \notin state.memory_topics_seen
    /\ state.memory_recall_used_this_turn

-----------------------------------------------------------------------------
(* Properties of the orchestration layer (SpecLayer) *)

\* the step is a process call for user u
ProcessStep(u) == processed'[u].calls = processed[u].calls + 1

\* the turn count of u's session, 0 while there is none
TurnCountOf(states, u) == dict_get(states, u, EnhancedConversationState(u)).turn_count

\* turn_count of every session is the number of process calls since its
\* creation or reset
TurnCountIsCalls ==
    \A u \in Users : u \in DOMAIN _enhanced_states =>
        _enhanced_states[u].turn_count = processed[u].calls

\* a process call adds 1 to the caller's turn_count, and turn_count changes
\* in no other step but a reset, which sets it to 0
TurnCountSteps ==
    \A u \in Users :
        /\ ProcessStep(u) =>
              TurnCountOf(_enhanced_states', u) = TurnCountOf(_enhanced_states, u) + 1
        /\ TurnCountOf(_enhanced_states', u) # TurnCountOf(_enhanced_states, u) =>
              \/ ProcessStep(u)
              \/ /\ call'.op = "reset_user"
                 /\ call'.anon_id = u
                 /\ TurnCountOf(_enhanced_states', u) = 0

\* C11 as stated: for each user, every call of process increases turn_count
\* by exactly 1 and no other operation except reset changes it, so that after
\* k messages since creation or the last reset turn_count is k, and it never
\* decreases between resets.
C11_EveryProcessCounts ==
    /\ []TurnCountIsCalls
    /\ [][TurnCountSteps]_vars

\* C11, amended: the same for a layer that is enabled; a disabled layer
\* returns the default context without touching the session.
C11_EveryProcessCountsWhenEnabled ==
    /\ [](_intelligence_layer.enabled => TurnCountIsCalls)
    /\ [][_intelligence_layer.enabled => TurnCountSteps]_vars

\* the third message of a session is counted although its processing failed
C11_Witness ==
    /\ _intelligence_layer.enabled
    /\ call.op = "process"
    /\ call.anon_id = "u1"
    /\ call.raised = Step_VENTING_SCORE
    /\ processed["u1"].calls = 3
    /\ _enhanced_states["u1"].turn_count = 3

\* C12: process never propagates a failure: when a step after entry raises, it
\* returns the safe default context, with phase sharing, questions allowed,
\* advice and memory recall not allowed and no memory response.
C12_FailureGivesDefaultContext ==
    (call.op = "process" /\ call.raised # Step_NONE) =>
        /\ call.ret.phase = "sharing"
        /\ call.ret.allow_questions
        /\ ~call.ret.allow_advice
        /\ ~call.ret.allow_memory_recall
        /\ call.ret.memory_response = NoResponse

\* the cooldown lookup raised after a recall had been made in the same call
C12_Witness ==
    /\ call.op = "process"
    /\ call.raised = Step_COOLDOWN_LOOKUP
    /\ _enhanced_states[call.anon_id].memory_recall_used_this_turn
    /\ _enhanced_states[call.anon_id].phase = "celebrating"
    /\ call.ret.phase = "sharing"

\* the session of the user of the last call
CalledSession == _enhanced_states[call.anon_id]

\* C13: after reset_user(u) the session of u is that of a new session:
\* turn_count 0, phase opening, no previous phase, empty history, trend
\* unknown, streaks 0, advice mode unknown, advice_asked false, no cooldowns,
\* no topics seen, recall latch false, no recent messages; a second
\* reset_user right after the first changes nothing.
C13_ResetGivesNewSession ==
    /\ [](call.op = "reset_user" =>
            /\ CalledSession.turn_count = 0
            /\ CalledSession.phase = "opening"
            /\ CalledSession.previous_phase = None
            /\ CalledSession.emotion_history = <<>>
            /\ CalledSession.emotion_trend = "unknown"
            /\ CalledSession.positive_streak = 0
            /\ CalledSession.neutral_streak = 0
            /\ CalledSession.distress_streak = 0
            /\ CalledSession.strong_distress_streak = 0
            /\ CalledSession.advice_mode = "unknown"
            /\ ~CalledSession.advice_asked
            /\ DOMAIN CalledSession.cooldowns = {}
            /\ CalledSession.memory_topics_seen = {}
            /\ ~CalledSession.memory_recall_used_this_turn
            /\ CalledSession.recent_messages = <<>>
            /\ CalledSession = EnhancedConversationState(call.anon_id))
    /\ [][(/\ call.op = "reset_user"
           /\ call'.op = "reset_user"
           /\ call'.anon_id = call.anon_id) => _enhanced_states' = _enhanced_states]_vars

\* a reset of a session that had handled three messages
C13_Witness ==
    /\ call.op = "reset_user"
    /\ call.turns_before = 3
    /\ CalledSession.turn_count = 0

\* C14: reset_user(u) leaves nothing behind: after it the session of u, the
\* cooldown manager's store for u and the message memory of u hold the values
\* they have for a user never seen.
C14_ResetLeavesNothingBehind ==
    call.op = "reset_user" =>
        /\ CalledSession = EnhancedConversationState(call.anon_id)
        /\ dict_get(_cooldowns, call.anon_id, EmptyDict) = EmptyDict
        /\ dict_get(MEMORY, call.anon_id, <<>>) = <<>>

\* C17: between resets, should_ask_advice_preference is true in at most one
\* of the contexts process returns for a user.
C17_AskedAtMostOnce ==
    \A u \in Users : processed[u].asked <= 1

-----------------------------------------------------------------------------
(* Properties of the emotion trend (SpecEmotion) *)

\* the valence scale positive 3, neutral 2, distress 1, strong_distress 0 and
\* 1.5 for any other label, doubled
TrendScale(e) ==
    IF e = "positive" THEN 6
    ELSE IF e = "neutral" THEN 4
    ELSE IF e = "distress" THEN 2
    ELSE IF e = "strong_distress" THEN 0
    ELSE 3

\* C23: after every update_emotion, emotion_trend is unknown exactly when the
\* history holds fewer than 3 emotions; otherwise it is improving, worsening
\* or stable as the last of the three most recent entries scores above, below
\* or equal to the first of them, whatever the middle entry is.
C23_TrendFromFirstAndLast ==
    call.op = "update_emotion" =>
        LET h == state.emotion_history
            n == Len(h)
        IN  /\ state.emotion_trend = EmotionTrend_UNKNOWN <=> n < 3
            /\ n >= 3 =>
                state.emotion_trend =
                    IF TrendScale(h[n]) > TrendScale(h[n - 2]) THEN EmotionTrend_IMPROVING
                    ELSE IF TrendScale(h[n]) < TrendScale(h[n - 2]) THEN EmotionTrend_WORSENING
                    ELSE EmotionTrend_STABLE

\* distress, positive, distress: the middle entry is above both ends and the
\* trend is stable
C23_Witness ==
    /\ call.op = "update_emotion"
    /\ supplied = <<"distress", "positive", "distress">>
    /\ state.emotion_history = supplied
    /\ state.emotion_trend = EmotionTrend_STABLE

-----------------------------------------------------------------------------
(* Specification of the message handler: handle_message of                  *)
(* dialogue_manager_enhanced.py, for the messages of one user, one message  *)
(* at a time; reset_user between two messages                               *)

\* the messages handled
MaxDialogueTurn == 4

\* the messages received: the text and the emotion the classifier predicts
DialogueMessages == {
    [text |-> "ok", emotion |-> "neutral"],
    [text |-> "ok", emotion |-> "distress"],
    [text |-> "bye", emotion |-> "neutral"],
    [text |-> TextMedium, emotion |-> "neutral"],
    [text |-> "ugh", emotion |-> "neutral"],
    [text |-> "i just need to vent", emotion |-> "neutral"]}

DialogueThreads == {"t1"}

\* the cooldown lookup of process succeeds for these messages
LookupRaises == {FALSE}

\* the categories the replies fall into
ReplyCategories == {"celebration_hype"}

\* a thread that has not received a message; steps is the history of the
\* calls made for the message in hand, handled the number of messages done,
\* closed whether the session has been in the Closing phase
Idle(anon_id) ==
    [pc |-> Pc_RECEIVE, anon_id |-> anon_id, text |-> "", emotion |-> "neutral",
     reply |-> {}, steps |-> <<>>, handled |-> 0, closed |-> FALSE]

InitDialogue ==
    /\ state = EnhancedConversationState("u1")
    /\ _phase_engine = [enabled |-> TRUE]
    /\ _cooldowns = EmptyDict
    /\ ENABLE_COOLDOWNS = TRUE
    /\ call = NoCall
    /\ supplied = <<>>
    /\ cm_armed = NotArmed
    /\ st_armed = [c \in ReplyCategories |-> Unset]
    /\ _enhanced_states = EmptyDict
    /\ MEMORY = EmptyDict
    /\ _intelligence_layer \in {[enabled |-> b] : b \in BOOLEAN}
    /\ _memory_controller = [enabled |-> TRUE]
    /\ ENABLE_ADVICE_DETECTION = TRUE
    /\ processed = [u \in Users |-> NotProcessed]
    /\ threads = [t \in DialogueThreads |-> Idle("u1")]

\* handle_message, steps 1 to 4: the emotion and the signals of the message,
\* then process_intelligence when ENABLE_CONVERSATION_INTELLIGENCE is set (the
\* flag the layer object copied when it was made)
HmProcess(t) ==
    /\ threads[t].pc = Pc_RECEIVE
    /\ threads[t].handled < MaxDialogueTurn
    /\ \E message \in DialogueMessages, draw \in Draws, lookup_raises \in LookupRaises :
        LET anon_id == threads[t].anon_id
            text == message.text
            signals == signals_table[text]
            emotion == signal_corrected_emotion(message.emotion, signals)
        IN  \/ /\ _intelligence_layer.enabled
               /\ \E outcome \in process(_intelligence_layer, _enhanced_states, MEMORY, anon_id,
                                         text, emotion, {signals}, draw, lookup_raises) :
                    /\ _enhanced_states' = outcome.states
                    /\ call' = [op |-> "process", anon_id |-> anon_id, text |-> text,
                                emotion |-> emotion, signals |-> signals,
                                raised |-> outcome.raised, ret |-> outcome.context,
                                trace |-> outcome.trace]
                    /\ processed' = [processed EXCEPT ![anon_id] =
                            [calls |-> @.calls + 1,
                             asked |-> @.asked +
                                IF outcome.context.should_ask_advice_preference THEN 1 ELSE 0]]
                    /\ st_armed' = [c \in ReplyCategories |-> Decremented(st_armed[c])]
                    /\ threads' = [threads EXCEPT ![t] =
                            [@ EXCEPT !.pc = Pc_GENERATE_REPLY, !.text = text,
                                      !.emotion = emotion, !.reply = {},
                                      !.steps = <<"process_intelligence">>,
                                      !.closed = @ \/ outcome.states[anon_id].phase = Phase_CLOSING]]
            \/ /\ ~_intelligence_layer.enabled
               /\ call' = NoCall
               /\ threads' = [threads EXCEPT ![t] =
                        [@ EXCEPT !.pc = Pc_GENERATE_REPLY, !.text = text,
                                  !.emotion = emotion, !.reply = {}, !.steps = <<>>]]
               /\ UNCHANGED <<_enhanced_states, processed, st_armed>>
    /\ UNCHANGED <<state, _phase_engine, _cooldowns, ENABLE_COOLDOWNS, supplied, cm_armed,
                   MEMORY, _intelligence_layer, _memory_controller, ENABLE_ADVICE_DETECTION>>

\* handle_message, step 6: generate_reply; the reply is known by the categories
\* its text falls into
HmGenerateReply(t) ==
    /\ threads[t].pc = Pc_GENERATE_REPLY
    /\ \E reply \in Replies :
        threads' = [threads EXCEPT ![t] =
            [@ EXCEPT !.pc = Pc_POST_REPLY, !.reply = reply.categories,
                      !.steps = Append(@, "generate_reply")]]
    /\ UNCHANGED <<state, _phase_engine, _cooldowns, ENABLE_COOLDOWNS, call, supplied, cm_armed,
                   st_armed, _enhanced_states, MEMORY, _intelligence_layer, _memory_controller,
                   ENABLE_ADVICE_DETECTION, processed>>

\* handle_message, step 7: post_reply_update(anon_id, reply) when
\* ENABLE_CONVERSATION_INTELLIGENCE is set
HmPostReply(t) ==
    /\ threads[t].pc = Pc_POST_REPLY
    /\ IF _intelligence_layer.enabled
       THEN /\ _enhanced_states' = post_reply(_intelligence_layer, _enhanced_states,
                                              threads[t].anon_id, threads[t].reply, None)
            /\ st_armed' = [c \in ReplyCategories |->
                                IF c \in threads[t].reply THEN Armed(COOLDOWN_CONFIG(c))
                                ELSE st_armed[c]]
            /\ threads' = [threads EXCEPT ![t] =
                    [@ EXCEPT !.pc = Pc_UPDATE_MEMORY, !.steps = Append(@, "post_reply_update")]]
       ELSE /\ threads' = [threads EXCEPT ![t] = [@ EXCEPT !.pc = Pc_UPDATE_MEMORY]]
            /\ UNCHANGED <<_enhanced_states, st_armed>>
    /\ UNCHANGED <<state, _phase_engine, _cooldowns, ENABLE_COOLDOWNS, call, supplied, cm_armed,
                   MEMORY, _intelligence_layer, _memory_controller, ENABLE_ADVICE_DETECTION,
                   processed>>

\* handle_message, step 9: update_memory(anon_id, emotion, text), and the return
HmUpdateMemory(t) ==
    /\ threads[t].pc = Pc_UPDATE_MEMORY
    /\ MEMORY' = update_memory(MEMORY, threads[t].anon_id, threads[t].emotion, threads[t].text)
    /\ threads' = [threads EXCEPT ![t] =
            [@ EXCEPT !.pc = Pc_RECEIVE, !.handled = @ + 1,
                      !.steps = Append(@, "update_memory")]]
    /\ UNCHANGED <<state, _phase_engine, _cooldowns, ENABLE_COOLDOWNS, call, supplied, cm_armed,
                   st_armed, _enhanced_states, _intelligence_layer, _memory_controller,
                   ENABLE_ADVICE_DETECTION, processed>>

\* reset_user(anon_id) between two messages, once the user has been answered
HmResetUser(t) ==
    /\ threads[t].pc = Pc_RECEIVE
    /\ threads[t].handled >= 1
    /\ call.op # "reset_user"
    /\ _enhanced_states' = reset_user(_enhanced_states, threads[t].anon_id)
    /\ call' = [op |-> "reset_user", anon_id |-> threads[t].anon_id]
    /\ processed' = [processed EXCEPT ![threads[t].anon_id] = NotProcessed]
    /\ st_armed' = [c \in ReplyCategories |-> Unset]
    /\ threads' = [threads EXCEPT ![t] = [@ EXCEPT !.closed = FALSE]]
    /\ UNCHANGED <<state, _phase_engine, _cooldowns, ENABLE_COOLDOWNS, supplied, cm_armed,
                   MEMORY, _intelligence_layer, _memory_controller, ENABLE_ADVICE_DETECTION>>

NextDialogue ==
    \/ \E t \in DialogueThreads : HmProcess(t)
    \/ \E t \in DialogueThreads : HmGenerateReply(t)
    \/ \E t \in DialogueThreads : HmPostReply(t)
    \/ \E t \in DialogueThreads : HmUpdateMemory(t)
    \/ \E t \in DialogueThreads : HmResetUser(t)

SpecDialogue == InitDialogue /\ [][NextDialogue]_vars

-----------------------------------------------------------------------------
(* Properties of the phase transitions in handled messages (SpecDialogue) *)

\* the last step was a process call that reached determine_phase
PhaseTraced == call.op = "process" /\ call.trace # NoTrace

\* that determine_phase call: the state it was given and what it returned
PhaseTrace == (CHOOSE tr \in call.trace : TRUE).determine_phase
Seen == PhaseTrace.state

\* no rule ahead of the transition table decides the phase of the message:
\* not the first message, no closing phrase, no calming, celebration or
\* venting condition
NoOverride ==
    /\ Seen.turn_count >= 2
    /\ ~_has_phrase(call.text, CLOSING_PHRASES)
    /\ call.emotion # "strong_distress"
    /\ ~_has_phrase(call.text, CALMING_TRIGGERS)
    /\ Seen.distress_streak < 2
    /\ ~(/\ call.emotion = "positive"
         /\ \/ call.signals.positive_count >= 3
            \/ _has_phrase(call.text, CELEBRATION_TRIGGERS)
            \/ Seen.positive_streak >= 2)
    /\ Len(call.text) <= 100
    /\ word_count_table[call.text] <= 20
    /\ ~_has_phrase(call.text, RANT_STARTERS)
    /\ call.signals.distress_count + call.signals.positive_count < 3
    /\ Seen.venting_score < 3

\* at most 50 characters and at most 10 words
ShortMessage == Len(call.text) <= 50 /\ word_count_table[call.text] <= 10

C29_VentingPauseOrStay ==
    /\ \A u \in DOMAIN _enhanced_states :
            _enhanced_states[u].phase = Phase_VENTING => _enhanced_states[u].turn_count >= 2
    /\ (PhaseTraced /\ NoOverride /\ Seen.phase = Phase_VENTING) =>
            IF ShortMessage
            THEN PhaseTrace.ret = <<Phase_REFLECTING, "venting_to_reflecting_pause">>
            ELSE PhaseTrace.ret[1] = Phase_VENTING
    /\ (PhaseTraced /\ NoOverride
            /\ PhaseTrace.ret[2] \in {"stay_sharing", "stay_venting", "stay_reflecting",
                                      "stay_calming", "stay_celebrating", "stay_closing",
                                      "no_transition"}) =>
            PhaseTrace.ret[1] = Seen.phase

\* the third message, "ok", reached a session in the Venting phase and moved
\* it to Reflecting
C29_Witness ==
    /\ PhaseTraced
    /\ NoOverride
    /\ Seen.phase = Phase_VENTING
    /\ Seen.turn_count = 3
    /\ call.text = "ok"
    /\ PhaseTrace.ret = <<Phase_REFLECTING, "venting_to_reflecting_pause">>
    /\ _enhanced_states[call.anon_id].phase = Phase_REFLECTING

\* C25: when the current phase is Closing and the user keeps writing (a
\* message of medium length without closing phrase and without calming,
\* celebration or venting trigger), the phase moves to Sharing with reason
\* closing_to_sharing_continued.
C25_ClosingIsNotTerminal ==
    (PhaseTraced /\ NoOverride /\ Seen.phase = Phase_CLOSING /\ ~ShortMessage)
        => PhaseTrace.ret = <<Phase_SHARING, "closing_to_sharing_continued">>

\* a session that was in Closing and went on to Sharing with the next
\* message has reached Reflecting with the one after
C25_Witness ==
    /\ PhaseTraced
    /\ \E t \in DialogueThreads : threads[t].closed
    /\ Seen.previous_phase = Phase_CLOSING
    /\ Seen.phase = Phase_SHARING
    /\ PhaseTrace.ret[1] = Phase_REFLECTING
    /\ _enhanced_states[call.anon_id].phase = Phase_REFLECTING

-----------------------------------------------------------------------------
(* Properties of the advice mode in handled messages (SpecDialogue) *)

\* the detect_advice_mode call of the last process call
AdviceTrace == (CHOOSE tr \in call.trace : TRUE).detect_advice_mode

\* a message without explicit phrase that reaches neither implicit threshold
\* (scores in tenths: vent 6, advice 5)
NoAdviceEvidence(text) ==
    LET f == advice_table[text]
    IN  /\ ~advice_has_phrase(text, VENT_ONLY_PHRASES)
        /\ ~advice_has_phrase(text, ADVICE_REQUEST_PHRASES)
        /\ (IF f.char_count > RANT_MIN_LENGTH THEN 4 ELSE 0) + (IF f.word_count > 30 THEN 3 ELSE 0)
            + (IF f.rant_starter THEN 3 ELSE 0) + (IF f.exclamations >= 2 THEN 2 ELSE 0)
            + (IF f.caps_words >= 2 THEN 1 ELSE 0) < 6
        /\ 3 * f.patterns
            + (IF f.word_count < 15 /\ f.question_marks >= 1 THEN 2 ELSE 0) < 5

\* NoAdviceEvidence of every message, tabulated once
no_advice_evidence_table == [text \in AllTexts |-> NoAdviceEvidence(text)]

\* C30: with advice detection enabled, for a message without explicit phrase
\* and below both implicit thresholds detect_advice_mode returns the
\* previously recorded mode with confidence 0.5 and reason using_previous_mode
\* if that mode is not UNKNOWN, and (UNKNOWN, 0.0) otherwise; process records
\* what was returned, so a process call that finds the session with mode
\* VENT_ONLY or ADVICE_OK never leaves it with UNKNOWN.
C30_AdviceModeSticky ==
    PhaseTraced =>
        /\ ENABLE_ADVICE_DETECTION
        /\ no_advice_evidence_table[call.text] =>
                AdviceTrace.ret =
                    IF AdviceTrace.state.advice_mode # AdviceMode_UNKNOWN
                    THEN <<AdviceTrace.state.advice_mode, 5, "using_previous_mode">>
                    ELSE <<AdviceMode_UNKNOWN, 0, "cannot_determine">>
        /\ _enhanced_states[call.anon_id].advice_mode = AdviceTrace.ret[1]
        /\ AdviceTrace.state.advice_mode # AdviceMode_UNKNOWN =>
                _enhanced_states[call.anon_id].advice_mode
                    \in {AdviceMode_VENT_ONLY, AdviceMode_ADVICE_OK}

\* a session that recorded VENT_ONLY for "i just need to vent" has kept it
\* for the following message "ok", which carries no evidence
C30_Witness ==
    /\ PhaseTraced
    /\ ENABLE_ADVICE_DETECTION
    /\ call.text = "ok"
    /\ no_advice_evidence_table[call.text]
    /\ AdviceTrace.state.advice_mode = AdviceMode_VENT_ONLY
    /\ AdviceTrace.ret = <<AdviceMode_VENT_ONLY, 5, "using_previous_mode">>
    /\ _enhanced_states[call.anon_id].advice_mode = AdviceMode_VENT_ONLY

-----------------------------------------------------------------------------
(* Properties of post_reply in handled messages (SpecDialogue) *)

\* the steps of handle_message that the model logs, in the order of the code
HandlerSteps == <<"process_intelligence", "generate_reply", "post_reply_update", "update_memory">>

\* the blocked categories returned by process are the armed categories whose
\* configured number of turns has not elapsed; post_reply has stored the
\* configured duration for every category of the reply
CooldownFollowsReply ==
    \A t \in DialogueThreads :
        /\ (threads[t].pc = Pc_GENERATE_REPLY /\ call.op = "process"
                /\ call.raised = Step_NONE) =>
              \A c \in ReplyCategories :
                  c \in call.ret.blocked_categories
                      <=> (st_armed[c].set /\ st_armed[c].k < st_armed[c].n)
        /\ (threads[t].pc = Pc_UPDATE_MEMORY /\ _intelligence_layer.enabled) =>
              \A c \in threads[t].reply :
                  /\ threads[t].anon_id \in DOMAIN _enhanced_states
                  /\ c \in DOMAIN _enhanced_states[threads[t].anon_id].cooldowns
                  /\ _enhanced_states[threads[t].anon_id].cooldowns[c] = COOLDOWN_CONFIG(c)

-----------------------------------------------------------------------------
(* Properties of the orchestrator's phase commit, master flag and user
   separation (SpecLayer) *)

\* C24 as stated: after each process call previous_phase is the phase the
\* session held immediately before the call and phase is the value
\* determine_phase returned.
C24_EveryCallCommitsPhase ==
    (call.op = "process" /\ call.phase_before # {}) =>
        /\ {CalledSession.previous_phase} = call.phase_before
        /\ call.trace # NoTrace
        /\ CalledSession.phase = PhaseTrace.ret[1]

\* C24: determine_phase changes no field of the state it is given; after
\* each process call that reaches determine_phase (layer enabled, no earlier
\* step failed) previous_phase is the phase the session held immediately
\* before the call (Opening for a session the call created) and phase is the
\* value determine_phase returned, the other fields being those handed to
\* determine_phase but for the bookkeeping of the recall that follows; a call
\* that does not reach it leaves the phase as it was.
C24_ReachedCallCommitsPhase ==
    call.op = "process" =>
        IF call.trace # NoTrace
        THEN /\ CalledSession.previous_phase = Seen.phase
             /\ call.phase_before \subseteq {Seen.phase}
             /\ call.phase_before = {} => Seen.phase = Phase_OPENING
             /\ CalledSession.phase = PhaseTrace.ret[1]
             /\ [CalledSession EXCEPT !.phase = Seen.phase,
                                      !.previous_phase = Seen.previous_phase,
                                      !.cooldowns = Seen.cooldowns,
                                      !.memory_topics_seen = Seen.memory_topics_seen,
                                      !.memory_recall_used_this_turn =
                                            Seen.memory_recall_used_this_turn] = Seen
        ELSE call.phase_before # {} =>
                /\ CalledSession.phase \in call.phase_before
                /\ call.raised = Step_NONE => ~_intelligence_layer.enabled

\* the third message of a session moved it from Sharing to another phase
\* and previous_phase holds Sharing
C24_Witness ==
    /\ call.op = "process"
    /\ call.trace # NoTrace
    /\ call.phase_before = {Phase_SHARING}
    /\ Seen.turn_count = 3
    /\ CalledSession.previous_phase = Phase_SHARING
    /\ CalledSession.phase = PhaseTrace.ret[1]
    /\ CalledSession.phase # Phase_SHARING

\* C27: with the master flag ENABLE_CONVERSATION_INTELLIGENCE off, process
\* returns the safe default context (phase Sharing, questions allowed, advice
\* and memory recall disallowed) and neither process nor post_reply creates a
\* session or changes a field of an existing one: the session store changes
\* by reset_user only.
C27_DisabledLayerIsInert ==
    [][~_intelligence_layer.enabled =>
            /\ call'.op = "process" =>
                    /\ call'.ret.phase = Phase_SHARING
                    /\ call'.ret.allow_questions
                    /\ ~call'.ret.allow_advice
                    /\ ~call'.ret.allow_memory_recall
                    /\ call'.ret.memory_response = NoResponse
                    /\ call'.raised = Step_NONE
            /\ call'.op # "reset_user" => _enhanced_states' = _enhanced_states]_vars

\* with the flag off, a process call for a user whose session reset_user
\* created has returned the default context and left the session as created
C27_Witness ==
    /\ ~_intelligence_layer.enabled
    /\ call.op = "process"
    /\ call.anon_id = "u1"
    /\ call.ret.phase = Phase_SHARING
    /\ call.phase_before = {Phase_OPENING}
    /\ processed["u1"].calls = 2
    /\ _enhanced_states = [u \in {"u1"} |-> EnhancedConversationState("u1")]

\* what the stores hold for one user
Only(d, u) == [x \in DOMAIN d \cap {u} |-> d[x]]

\* what a process call gives its user
ProcessResults(states, memory, anon_id, message, draw, lookup_raises) ==
    {<<Only(outcome.states, anon_id), outcome.raised, outcome.context>> :
        outcome \in process(_intelligence_layer, states, memory, anon_id, message.text,
                            message.emotion, message.signals, draw, lookup_raises)}

\* the user has turns left within the bound of the model
TurnsLeft(anon_id) ==
    processed[anon_id].calls < (IF anon_id \in MainUsers THEN MaxLayerTurn ELSE MaxOtherTurn)

\* process (for every turn the user can take next), post_reply and reset_user
\* for user A give A, in the presence of the other users' data, what they
\* give when A's data is all there is
SameAsAlone ==
    \A A \in Users :
        LET states == Only(_enhanced_states, A)
            memory == Only(MEMORY, A)
        IN  /\ (TurnsLeft(A) /\ <<states, memory>> # <<_enhanced_states, MEMORY>>) =>
                \A message \in MessagesOf(A), draw \in Draws :
                    ProcessResults(_enhanced_states, MEMORY, A, message, draw, FALSE)
                        = ProcessResults(states, memory, A, message, draw, FALSE)
            /\ \A reply \in Replies :
                    Only(post_reply(_intelligence_layer, _enhanced_states, A,
                                    reply.categories, reply.category), A)
                        = post_reply(_intelligence_layer, states, A,
                                     reply.categories, reply.category)
            /\ Only(reset_user(_enhanced_states, A), A) = reset_user(states, A)

\* C21: a step of process, post_reply or reset_user for user A leaves what is
\* stored for every other user (session state, cooldowns, recall memory)
\* unchanged, and what the step gives A is what it gives when A's data is all
\* there is, so that the turns of A and B interleaved give each the state and
\* results of its own turns alone.
C21_UsersAreIndependent ==
    /\ []SameAsAlone
    /\ [][LET changed == {u \in Users :
                            \/ Only(_enhanced_states', u) # Only(_enhanced_states, u)
                            \/ Only(MEMORY', u) # Only(MEMORY, u)
                            \/ Only(_cooldowns', u) # Only(_cooldowns, u)}
          IN  /\ Cardinality(changed) <= 1
              /\ call'.op \in {"process", "reset_user"} => changed \subseteq {call'.anon_id}]_vars

\* the first user has had three turns around the one turn of the second
\* user, whose session still holds its first turn
C21_Witness ==
    /\ call.op = "process"
    /\ call.anon_id = "u1"
    /\ DOMAIN _enhanced_states = {"u1", "u2"}
    /\ _enhanced_states["u1"].turn_count = 3
    /\ _enhanced_states["u2"].turn_count = 1
    /\ Len(_enhanced_states["u2"].emotion_history) = 1

-----------------------------------------------------------------------------
(* Two handler threads in ConversationIntelligenceLayer.process for one user.
   The code takes no lock: a thread switch can fall between any two steps of
   process, of get_enhanced_state (test, store, lookup) and of
   `self.turn_count += 1` (load, store). Each thread works on the object its
   lookup returned: the object of the store, or an object that another
   thread's store has replaced there. *)

\* the messages each thread handles
MaxConcurrentTurn == 1

ConcurrentThreads == {"t1", "t2"}

\* the messages: text, emotion and signals
ConcurrentMessages == {
    [text |-> "ok", emotion |-> "neutral"],
    [text |-> "ok", emotion |-> "distress"]}

Pc_GET_CHECK == "get_enhanced_state_test"
Pc_GET_CREATE == "get_enhanced_state_store"
Pc_GET_RETURN == "get_enhanced_state_lookup"
Pc_TURN_READ == "turn_count_load"
Pc_TURN_WRITE == "turn_count_store"
Pc_UPDATE_EMOTION == "update_emotion"
Pc_ADD_MESSAGE == "add_message"

\* the object a thread's variable `state` refers to
Ref_NONE == "none"
Ref_STORED == "in_store"
Ref_REPLACED == "replaced_in_store"

\* a thread outside process: sent are the emotions of the messages it handled
ConcurrentIdle(anon_id) ==
    [pc |-> Pc_RECEIVE, anon_id |-> anon_id, text |-> "", emotion |-> "neutral",
     ref |-> Ref_NONE, obj |-> {}, turn_count |-> 0, sent |-> <<>>]

InitConcurrent ==
    /\ state = EnhancedConversationState("u1")
    /\ _phase_engine = [enabled |-> TRUE]
    /\ _cooldowns = EmptyDict
    /\ ENABLE_COOLDOWNS = TRUE
    /\ call = NoCall
    /\ supplied = <<>>
    /\ cm_armed = NotArmed
    /\ st_armed = [c \in ReplyCategories |-> Unset]
    /\ _enhanced_states = EmptyDict
    /\ MEMORY = EmptyDict
    /\ _intelligence_layer = [enabled |-> TRUE]
    /\ _memory_controller = [enabled |-> TRUE]
    /\ ENABLE_ADVICE_DETECTION = TRUE
    /\ processed = [u \in Users |-> NotProcessed]
    /\ threads = [t \in ConcurrentThreads |-> ConcurrentIdle("u1")]

\* the value of the object thread t works on
StateOf(t) ==
    IF threads[t].ref = Ref_STORED THEN _enhanced_states[threads[t].anon_id]
    ELSE CHOOSE st \in threads[t].obj : TRUE

\* thread t assigns to its object and moves on
Assign(t, st, pc) ==
    IF threads[t].ref = Ref_STORED
    THEN /\ _enhanced_states' = dict_set(_enhanced_states, threads[t].anon_id, st)
         /\ threads' = [threads EXCEPT ![t].pc = pc]
    ELSE /\ threads' = [threads EXCEPT ![t].pc = pc, ![t].obj = {st}]
         /\ UNCHANGED _enhanced_states

\* process is entered with a message (the layer is enabled)
CcEnter(t) ==
    /\ threads[t].pc = Pc_RECEIVE
    /\ Len(threads[t].sent) < MaxConcurrentTurn
    /\ _intelligence_layer.enabled
    /\ \E message \in ConcurrentMessages :
        threads' = [threads EXCEPT ![t] =
            [@ EXCEPT !.pc = Pc_GET_CHECK, !.text = message.text, !.emotion = message.emotion,
                      !.ref = Ref_NONE, !.obj = {}]]
    /\ UNCHANGED <<state, _phase_engine, _cooldowns, ENABLE_COOLDOWNS, call, supplied, cm_armed,
                   st_armed, _enhanced_states, MEMORY, _intelligence_layer, _memory_controller,
                   ENABLE_ADVICE_DETECTION, processed>>

\* get_enhanced_state: if anon_id not in _enhanced_states
CcGetCheck(t) ==
    /\ threads[t].pc = Pc_GET_CHECK
    /\ threads' = [threads EXCEPT ![t].pc =
            IF threads[t].anon_id \notin DOMAIN _enhanced_states THEN Pc_GET_CREATE
            ELSE Pc_GET_RETURN]
    /\ UNCHANGED <<state, _phase_engine, _cooldowns, ENABLE_COOLDOWNS, call, supplied, cm_armed,
                   st_armed, _enhanced_states, MEMORY, _intelligence_layer, _memory_controller,
                   ENABLE_ADVICE_DETECTION, processed>>

\* get_enhanced_state: _enhanced_states[anon_id] = EnhancedConversationState(...);
\* a thread that holds the object stored before goes on with that object
CcGetCreate(t) ==
    /\ threads[t].pc = Pc_GET_CREATE
    /\ _enhanced_states' = dict_set(_enhanced_states, threads[t].anon_id,
                                    EnhancedConversationState(threads[t].anon_id))
    /\ threads' = [u \in ConcurrentThreads |->
            IF u = t THEN [threads[u] EXCEPT !.pc = Pc_GET_RETURN]
            ELSE IF threads[u].ref = Ref_STORED /\ threads[u].anon_id = threads[t].anon_id
                 THEN [threads[u] EXCEPT !.ref = Ref_REPLACED,
                                         !.obj = {_enhanced_states[threads[u].anon_id]}]
                 ELSE threads[u]]
    /\ UNCHANGED <<state, _phase_engine, _cooldowns, ENABLE_COOLDOWNS, call, supplied, cm_armed,
                   st_armed, MEMORY, _intelligence_layer, _memory_controller,
                   ENABLE_ADVICE_DETECTION, processed>>

\* get_enhanced_state: return _enhanced_states[anon_id]
CcGetReturn(t) ==
    /\ threads[t].pc = Pc_GET_RETURN
    /\ threads' = [threads EXCEPT ![t].pc = Pc_TURN_READ, ![t].ref = Ref_STORED]
    /\ UNCHANGED <<state, _phase_engine, _cooldowns, ENABLE_COOLDOWNS, call, supplied, cm_armed,
                   st_armed, _enhanced_states, MEMORY, _intelligence_layer, _memory_controller,
                   ENABLE_ADVICE_DETECTION, processed>>

\* increment_turn: the load of self.turn_count in `self.turn_count += 1`
CcTurnRead(t) ==
    /\ threads[t].pc = Pc_TURN_READ
    /\ threads' = [threads EXCEPT ![t].pc = Pc_TURN_WRITE,
                                  ![t].turn_count = StateOf(t).turn_count]
    /\ UNCHANGED <<state, _phase_engine, _cooldowns, ENABLE_COOLDOWNS, call, supplied, cm_armed,
                   st_armed, _enhanced_states, MEMORY, _intelligence_layer, _memory_controller,
                   ENABLE_ADVICE_DETECTION, processed>>

\* increment_turn: the store of `self.turn_count += 1` and the rest of the method
CcTurnWrite(t) ==
    /\ threads[t].pc = Pc_TURN_WRITE
    /\ Assign(t, [increment_turn(StateOf(t)) EXCEPT !.turn_count = threads[t].turn_count + 1],
              Pc_UPDATE_EMOTION)
    /\ UNCHANGED <<state, _phase_engine, _cooldowns, ENABLE_COOLDOWNS, call, supplied, cm_armed,
                   st_armed, MEMORY, _intelligence_layer, _memory_controller,
                   ENABLE_ADVICE_DETECTION, processed>>

\* state.update_emotion(emotion)
CcUpdateEmotion(t) ==
    /\ threads[t].pc = Pc_UPDATE_EMOTION
    /\ Assign(t, update_emotion(StateOf(t), threads[t].emotion), Pc_ADD_MESSAGE)
    /\ UNCHANGED <<state, _phase_engine, _cooldowns, ENABLE_COOLDOWNS, call, supplied, cm_armed,
                   st_armed, MEMORY, _intelligence_layer, _memory_controller,
                   ENABLE_ADVICE_DETECTION, processed>>

\* process from state.add_message to the return of the context
CcFinish(t) ==
    /\ threads[t].pc = Pc_ADD_MESSAGE
    /\ \E draw \in Draws :
        LET anon_id == threads[t].anon_id
            signals == signals_table[threads[t].text]
        IN  \E outcome \in process_from_add_message(
                    dict_set(_enhanced_states, anon_id, StateOf(t)), StateOf(t), MEMORY,
                    anon_id, threads[t].text, threads[t].emotion, {signals}, draw, FALSE) :
                /\ IF threads[t].ref = Ref_STORED
                   THEN /\ _enhanced_states' = outcome.states
                        /\ threads' = [threads EXCEPT ![t] =
                                [@ EXCEPT !.pc = Pc_RECEIVE,
                                          !.sent = Append(@, threads[t].emotion)]]
                   ELSE /\ UNCHANGED _enhanced_states
                        /\ threads' = [threads EXCEPT ![t] =
                                [@ EXCEPT !.pc = Pc_RECEIVE,
                                          !.sent = Append(@, threads[t].emotion),
                                          !.obj = {outcome.states[anon_id]}]]
                /\ call' = [op |-> "process", anon_id |-> anon_id, raised |-> outcome.raised,
                            ret |-> outcome.context]
                /\ processed' = [processed EXCEPT ![anon_id] =
                        [calls |-> @.calls + 1,
                         asked |-> @.asked +
                            IF outcome.context.should_ask_advice_preference THEN 1 ELSE 0]]
    /\ UNCHANGED <<state, _phase_engine, _cooldowns, ENABLE_COOLDOWNS, supplied, cm_armed,
                   st_armed, MEMORY, _intelligence_layer, _memory_controller,
                   ENABLE_ADVICE_DETECTION>>

NextConcurrent ==
    \/ \E t \in ConcurrentThreads : CcEnter(t)
    \/ \E t \in ConcurrentThreads : CcGetCheck(t)
    \/ \E t \in ConcurrentThreads : CcGetCreate(t)
    \/ \E t \in ConcurrentThreads : CcGetReturn(t)
    \/ \E t \in ConcurrentThreads : CcTurnRead(t)
    \/ \E t \in ConcurrentThreads : CcTurnWrite(t)
    \/ \E t \in ConcurrentThreads : CcUpdateEmotion(t)
    \/ \E t \in ConcurrentThreads : CcFinish(t)

SpecConcurrent == InitConcurrent /\ [][NextConcurrent]_vars

-----------------------------------------------------------------------------
(* Properties of concurrent messages of one user (SpecConcurrent) *)

\* how often emotion e occurs in a sequence of emotions
Occurrences(seq, e) == Cardinality({i \in 1..Len(seq) : seq[i] = e})

\* every thread has returned from process
AllReturned == \A t \in ConcurrentThreads : threads[t].pc = Pc_RECEIVE

\* C22: messages of one user handled concurrently have the effect of
\* messages handled one after the other (their steps being under mutual
\* exclusion scoped to the user id): when all have been handled, no thread
\* has worked on a session object other than the one in the store, and the
\* stored session's turn_count is the number of messages, its history holding
\* the emotion of each.
C22_ConcurrentMessagesAreSerialized ==
    (AllReturned /\ "u1" \in DOMAIN _enhanced_states) =>
        LET st == _enhanced_states["u1"]
            sent == threads["t1"].sent \o threads["t2"].sent
        IN  /\ \A t \in ConcurrentThreads : threads[t].ref # Ref_REPLACED
            /\ st.turn_count = Len(sent)
            /\ Len(st.emotion_history) = Len(sent)
            /\ \A e \in {"neutral", "distress"} :
                    Occurrences(st.emotion_history, e) = Occurrences(sent, e)

-----------------------------------------------------------------------------
(* The candidate of a recall *)

\* the messages of the session's user still retained in the recall memory
Retained == dict_get(MEMORY, state.anon_id, <<>>)

\* the message shares a topic with a retained message, the last one included
SharesRetainedTopic(text) ==
    \E i \in 1..Len(Retained) : topics_table[text] \cap Retained[i].topics # {}

\* how often the emotion occurs in the retained messages
RetainedOccurrences(emotion) ==
    Cardinality({i \in 1..Len(Retained) : Retained[i].emotion = emotion})

\* C31: once all recall gates pass, the candidate is a topic recall whenever
\* the current message shares a topic with any retained earlier message of
\* the user, the immediately preceding one included; an emotion recall is
\* chosen only when there is no such topic and the current emotion occurs at
\* least 2 times in that memory; otherwise nothing is recalled.
C31_TopicRecallFromAnyRetainedMessage ==
    \A text \in RecallTexts, phase \in RecallPhases, emotion \in RecallEmotions, draw \in Draws :
        should_recall_memory(_memory_controller.enabled, state, phase, emotion, draw)[1] =>
            LET outcomes == check_memory_recall(_memory_controller.enabled, MEMORY,
                                state.anon_id, text, state, phase, emotion, draw)
            IN  IF SharesRetainedTopic(text)
                THEN \A o \in outcomes : o.response.type = "topic"
                ELSE IF RetainedOccurrences(emotion) >= MEMORY_RECALL_MIN_OCCURRENCES
                     THEN \A o \in outcomes : o.response.type = "emotion"
                     ELSE outcomes = {[response |-> NoResponse, state |-> state]}

-----------------------------------------------------------------------------
(* A recall that returns nothing *)

\* C37: a check_memory_recall that returns no response, because a gate
\* failed or because no topic or emotion candidate was found, leaves the
\* session state as it was: the per-turn latch, the cooldown map and
\* memory_topics_seen keep the values they had before the call.
C37_NoResponseLeavesState ==
    [][(call'.op = "check_memory_recall" /\ call'.ret = NoResponse) => state' = state]_vars

\* a call returned nothing while an earlier recall's cooldown was running
C37_Witness ==
    /\ call.op = "check_memory_recall"
    /\ call.ret = NoResponse
    /\ is_on_cooldown(state, "memory_callback")
    /\ state.memory_topics_seen # {}

-----------------------------------------------------------------------------
(* The distance between two recalls of a conversation *)

\* the last successful recall of the session and the turns started since
LastRecall == st_armed["memory_callback"]

\* no call of check_memory_recall in this state returns a response
NothingRecalled ==
    \A text \in RecallTexts, phase \in RecallPhases, emotion \in RecallEmotions, draw \in Draws :
        check_memory_recall(_memory_controller.enabled, MEMORY, state.anon_id, text, state,
                            phase, emotion, draw) = {[response |-> NoResponse, state |-> state]}

\* C35: two successful recalls of a conversation are at least 4 turns apart.
\* After a recall on turn t check_memory_recall returns nothing for the rest
\* of turn t and on turns t+1, t+2 and t+3, whatever the message, phase,
\* emotion and random draw; on turn t+4 the cooldown has expired and the
\* gates can pass again.
C35_RecallsFourTurnsApart ==
    /\ [](LastRecall.set =>
            /\ LastRecall.k < COOLDOWN_CONFIG("memory_callback") => NothingRecalled
            /\ LastRecall.k = COOLDOWN_CONFIG("memory_callback") =>
                  /\ ~is_on_cooldown(state, "memory_callback")
                  /\ \E phase \in RecallPhases, emotion \in RecallEmotions, draw \in Draws :
                        should_recall_memory(_memory_controller.enabled, state, phase,
                                             emotion, draw)[1])
    /\ [][(call'.op = "check_memory_recall" /\ call'.ret # NoResponse /\ LastRecall.set)
              => LastRecall.k = COOLDOWN_CONFIG("memory_callback")]_vars

\* a second topic recall on the fourth turn after the first possible one
C35_Witness ==
    /\ call.op = "check_memory_recall"
    /\ call.ret # NoResponse
    /\ Cardinality(state.memory_topics_seen) = 2
    /\ state.turn_count = MEMORY_RECALL_MIN_TURNS + COOLDOWN_CONFIG("memory_callback")

-----------------------------------------------------------------------------
(* The session after a failed process call *)

-----------------------------------------------------------------------------
(* Specification of one conversation: the messages of one user, of every    *)
(* emotion label, go through process one after the other, and the session   *)
(* can be reset in between                                                  *)

MaxConversationTurn == 4

\* the messages of the conversation, with the signal counts the handler passes
ConversationMessages ==
    [text : {"ok"}, emotion : {"neutral", "positive", "distress", "strong_distress"},
     signals : {{[distress_count |-> 0, positive_count |-> 0]}}]
    \cup [text : {"what should i do", "i just need to vent", "bye", TextMedium},
          emotion : {"neutral"},
          signals : {{[distress_count |-> 0, positive_count |-> 0]}}]

InitConversation ==
    /\ InitLayer
    /\ _intelligence_layer.enabled

\* process(anon_id, text, emotion, signals) for the next message of the user
ConversationProcess(anon_id) ==
    /\ processed[anon_id].calls < MaxConversationTurn
    /\ \E message \in ConversationMessages, draw \in Draws, lookup_raises \in BOOLEAN :
        \E outcome \in process(_intelligence_layer, _enhanced_states, MEMORY, anon_id,
                               message.text, message.emotion, message.signals,
                               draw, lookup_raises) :
            /\ _enhanced_states' = outcome.states
            /\ call' = [op |-> "process", anon_id |-> anon_id, text |-> message.text,
                        emotion |-> message.emotion,
                        signals |-> SignalsValue(message.signals),
                        raised |-> outcome.raised, ret |-> outcome.context,
                        trace |-> outcome.trace,
                        phase_before |-> IF anon_id \in DOMAIN _enhanced_states
                                         THEN {_enhanced_states[anon_id].phase} ELSE {}]
            /\ processed' = [processed EXCEPT ![anon_id] =
                    [calls |-> @.calls + 1,
                     asked |-> @.asked +
                        IF outcome.context.should_ask_advice_preference THEN 1 ELSE 0]]
            /\ UNCHANGED <<state, _phase_engine, _cooldowns, ENABLE_COOLDOWNS, supplied,
                           cm_armed, st_armed, MEMORY, _intelligence_layer,
                           _memory_controller, ENABLE_ADVICE_DETECTION, threads>>

NextConversation ==
    \/ \E anon_id \in MainUsers : ConversationProcess(anon_id)
    \/ \E anon_id \in MainUsers : ResetUser(anon_id)

SpecConversation == InitConversation /\ [][NextConversation]_vars

-----------------------------------------------------------------------------
(* Properties of the phases of one conversation (SpecConversation) *)

\* C32: with the phase engine enabled, after every successful process call
\* the session's phase is Opening if and only if turn_count <= 1: the first
\* message yields Opening and no later turn yields Opening again until the
\* session is reset.
C32_OpeningOnlyOnFirstTurn ==
    (call.op = "process" /\ call.raised = Step_NONE /\ _phase_engine.enabled) =>
        (CalledSession.phase = Phase_OPENING <=> CalledSession.turn_count <= 1)

\* the second message of a session was processed and the session left Opening
C32_Witness ==
    /\ call.op = "process"
    /\ call.raised = Step_NONE
    /\ call.phase_before = {Phase_OPENING}
    /\ CalledSession.turn_count = 2
    /\ CalledSession.phase # Phase_OPENING

C34_NoReflectingBeforeTurnThree ==
    /\ \A u \in DOMAIN _enhanced_states :
            _enhanced_states[u].phase = Phase_REFLECTING =>
                _enhanced_states[u].turn_count >= 3
    /\ (call.op = "process" /\ CalledSession.turn_count = 1) =>
            CalledSession.phase = Phase_OPENING
    /\ (call.op = "process" /\ CalledSession.turn_count = 2) =>
            /\ Seen.phase = Phase_OPENING
            /\ CalledSession.phase # Phase_REFLECTING

\* the third message, a short one, moved the session from Sharing to Reflecting
C34_Witness ==
    /\ call.op = "process"
    /\ call.phase_before = {Phase_SHARING}
    /\ CalledSession.turn_count = 3
    /\ CalledSession.phase = Phase_REFLECTING

\* C36: in every context returned by process, allow_advice is true only if
\* the phase is Reflecting and the detected advice mode is ADVICE_OK; it is
\* false in Opening, Sharing, Venting, Calming, Celebrating and Closing, and
\* whenever the mode is VENT_ONLY or UNKNOWN.
C36_AdviceOnlyWhenReflectingAndOk ==
    call.op = "process" =>
        /\ call.ret.allow_advice =>
              /\ call.ret.phase = Phase_REFLECTING
              /\ call.ret.advice_mode = AdviceMode_ADVICE_OK
        /\ call.ret.phase \in {Phase_OPENING, Phase_SHARING, Phase_VENTING, Phase_CALMING,
                               Phase_CELEBRATING, Phase_CLOSING} => ~call.ret.allow_advice
        /\ call.ret.advice_mode \in {AdviceMode_VENT_ONLY, AdviceMode_UNKNOWN} =>
              ~call.ret.allow_advice

\* a context that allows advice: the user asked for advice earlier and the
\* session is now Reflecting
C36_Witness ==
    /\ call.op = "process"
    /\ call.ret.allow_advice
    /\ call.text = "ok"
    /\ CalledSession.phase = Phase_REFLECTING
    /\ CalledSession.advice_mode = AdviceMode_ADVICE_OK

====
